---------------------------- MODULE Spec2Model ----------------------------
(***************************************************************************)
(* Model of the OpenStack MCP server: the client (openstack_client.py) and *)
(* the tool handlers (openstack_mcp_server.py).                            *)
(*                                                                         *)
(* Python values are encoded as follows.                                   *)
(*   None            the empty tuple <<>>                                  *)
(*   a value v       the one-element tuple <<v>>                           *)
(*   a dict          a function from its keys (strings) to encoded values; *)
(*                   a key the dict lacks is not in its DOMAIN             *)
(*   a list          a sequence                                            *)
(*   a call          a record [raised |-> FALSE, value |-> v] or           *)
(*                   [raised |-> TRUE, error |-> e]                        *)
(*   a percentage    the integer number of hundredths (85.0 is 8500)       *)
(***************************************************************************)
EXTENDS Integers, Sequences, FiniteSets, TLC

VARIABLES
    cloud,       \* the backing OpenStack deployment the client talks to
    stdout_ok,   \* whether the process can still write to its standard output
    token,       \* OpenStackClient.token
    project_id,  \* OpenStackClient.project_id
    sent,        \* the HTTP requests sent while serving the last tool call
    result       \* the last tool call: its name, its locals and what it returned

vars == <<cloud, stdout_ok, token, project_id, sent, result>>

-----------------------------------------------------------------------------
(* Bounds of the model *)

MaxServers == 2
MaxHypervisors == 2
MaxFlavors == 6
MaxVolumes == 1
MaxStatusServers == 5

-----------------------------------------------------------------------------
(* Python values *)

None == <<>>
Some(v) == <<v>>
Absent == <<0, 0>>      \* generator marker only: the raw dict has no such key
NoKeys == <<>>          \* the empty dict

Ok(v) == [raised |-> FALSE, value |-> v]
Raise(e) == [raised |-> TRUE, error |-> e]

\* dict.get(k) and dict.get(k, default)
Get(d, k) == IF k \in DOMAIN d THEN d[k] ELSE None
GetD(d, k, dflt) == IF k \in DOMAIN d THEN d[k] ELSE dflt

\* truth value of an encoded Python value, by the type of the value: None,
\* "", False and the empty dict are false
TruthyBool(o) == o = Some(TRUE)
TruthyStr(o) == o # None /\ o # Some("")
TruthyDict(o) == o # None /\ o # Some(NoKeys)

Field(k, o) == IF o = Absent THEN NoKeys ELSE (k :> o)

RECURSIVE SeqsUpTo(_, _)
\* all sequences of length at most n whose i-th element is drawn from S[i]
SeqsUpTo(S, n) ==
    IF n = 0 THEN {<<>>}
    ELSE LET shorter == SeqsUpTo(S, n - 1)
         IN shorter \cup {Append(q, e) : q \in {p \in shorter : Len(p) = n - 1}, e \in S[n]}

-----------------------------------------------------------------------------
(* OpenStackClient: authentication and transport.  The client's fields are   *)
(* threaded through the calls as c = [token, project_id, sent].              *)

TokenValue == "tok"
ProjectValue == "p1"

service_urls == {"nova", "cinder", "neutron", "keystone"}

AuthRequest == [method |-> "POST", service |-> "keystone", endpoint |-> "/auth/tokens",
                with_project |-> FALSE, body |-> TRUE]

\* get_token: reuse the token when there is one; otherwise POST to keystone.
\* An answer without a project scope sets the token and then fails on the
\* project id lookup.
get_token(c) ==
    IF TruthyStr(c.token)
    THEN [c |-> c, raised |-> FALSE, value |-> c.token]
    ELSE LET posted == [c EXCEPT !.sent = Append(@, AuthRequest)]
         IN CASE cloud.auth = "ok" ->
                   [c |-> [posted EXCEPT !.token = Some(TokenValue),
                                         !.project_id = Some(ProjectValue)],
                    raised |-> FALSE, value |-> Some(TokenValue)]
              [] cloud.auth = "unscoped" ->
                   [c |-> [posted EXCEPT !.token = Some(TokenValue)],
                    raised |-> TRUE, error |-> "Authentication failed"]
              [] OTHER ->
                   [c |-> posted, raised |-> TRUE, error |-> "Authentication failed"]

\* the JSON document the service holds at an endpoint; <<>> when there is none
Lookup(items, prefix, endpoint) ==
    {i \in DOMAIN items : /\ TruthyStr(Get(items[i], "id"))
                          /\ prefix \o Get(items[i], "id")[1] = endpoint}

Response(endpoint) ==
    CASE endpoint = "/servers/detail" -> Some("servers" :> cloud.servers)
      [] endpoint = "/os-hypervisors/detail" -> Some("hypervisors" :> cloud.hypervisors)
      [] endpoint = "/flavors/detail" -> Some("flavors" :> cloud.flavors)
      [] endpoint = "/images/detail" -> Some("images" :> cloud.images)
      [] endpoint = "/volumes/detail" -> Some("volumes" :> cloud.volumes)
      [] endpoint = "/types" -> Some("volume_types" :> cloud.volume_types)
      [] endpoint = "/networks" -> Some("networks" :> cloud.networks)
      [] endpoint = "/subnets" -> Some("subnets" :> cloud.subnets)
      [] endpoint = "/routers" -> Some("routers" :> cloud.routers)
      [] Lookup(cloud.servers, "/servers/", endpoint) # {} ->
            Some("server" :> cloud.servers[CHOOSE i \in Lookup(cloud.servers, "/servers/", endpoint) : TRUE])
      [] Lookup(cloud.flavors, "/flavors/", endpoint) # {} ->
            Some("flavor" :> cloud.flavors[CHOOSE i \in Lookup(cloud.flavors, "/flavors/", endpoint) : TRUE])
      [] Lookup(cloud.images, "/images/", endpoint) # {} ->
            Some("image" :> cloud.images[CHOOSE i \in Lookup(cloud.images, "/images/", endpoint) : TRUE])
      [] OTHER -> None

\* how the request fails: requests.request finds no connection, raise_for_status
\* sees an error status, or response.json() cannot decode the body
FaultOf(service) ==
    IF service \in cloud.down THEN cloud.fault ELSE "status"

\* whether the service answers the request with an error status (or not at all)
ServiceFails(service, endpoint, with_project) ==
    \/ service \in cloud.down
    \/ cloud.strict /\ service \in {"nova", "cinder"} /\ ~with_project
    \/ Response(endpoint) = None

\* the request of _api_call after the headers asked for the token:
\* requests.request, raise_for_status and response.json()
Send(auth, request) ==
    IF auth.raised
    THEN [c |-> auth.c, raised |-> TRUE, error |-> auth.error]
    ELSE IF ServiceFails(request.service, request.endpoint, request.with_project)
         THEN [c |-> [auth.c EXCEPT !.sent = Append(@, request)],
               raised |-> TRUE, error |-> "API call failed: " \o FaultOf(request.service)]
         ELSE [c |-> [auth.c EXCEPT !.sent = Append(@, request)],
               raised |-> FALSE, value |-> Response(request.endpoint)[1]]

\* _api_call deleting the resource it was asked about
api_call_Mut(c, endpoint, service) ==
    IF service \notin service_urls
    THEN [c |-> c, raised |-> TRUE, error |-> "Unknown service"]
    ELSE Send(get_token(c),
              [method |-> "DELETE", service |-> service, endpoint |-> endpoint,
               with_project |-> service \in {"nova", "cinder"} /\ TruthyStr(c.project_id),
               body |-> FALSE])

\* _api_call with the default method GET and no body, as every caller uses it.
\* The URL is built from project_id before the headers ask for the token.
api_call(c, endpoint, service) ==
    IF service \notin service_urls
    THEN [c |-> c, raised |-> TRUE, error |-> "Unknown service"]
    ELSE Send(get_token(c),
              [method |-> "GET", service |-> service, endpoint |-> endpoint,
               with_project |-> service \in {"nova", "cinder"} /\ TruthyStr(c.project_id),
               body |-> FALSE])

\* the handler "except Exception as e: print(...); return <empty>" of every
\* client operation: the print itself fails when standard output is gone
Swallow(c, empty) ==
    IF stdout_ok
    THEN [c |-> c, raised |-> FALSE, value |-> empty]
    ELSE [c |-> c, raised |-> TRUE, error |-> "I/O operation on closed file"]

-----------------------------------------------------------------------------
(* OpenStackClient: the listing operations and their normalised records *)

\* server.get('flavor', {}).get('id'): a null flavor has no .get
FlavorRefRaises(server) == "flavor" \in DOMAIN server /\ server["flavor"] = None
FlavorRef(server) ==
    IF "flavor" \in DOMAIN server THEN Get(server["flavor"][1], "id") ELSE None

\* server.get('image', {}).get('id') if server.get('image') else None
ImageRef(server) ==
    IF TruthyDict(Get(server, "image")) THEN Get(server["image"][1], "id") ELSE None

NormServer(server) ==
    [id |-> Get(server, "id"),
     name |-> Get(server, "name"),
     status |-> Get(server, "status"),
     state |-> Get(server, "status"),
     host |-> Get(server, "OS-EXT-SRV-ATTR:host"),
     created |-> Get(server, "created"),
     flavor |-> FlavorRef(server),
     image |-> ImageRef(server),
     power_state |-> Get(server, "OS-EXT-STS:power_state"),
     task_state |-> Get(server, "OS-EXT-STS:task_state")]

NormHypervisor(hypervisor) ==
    [id |-> Get(hypervisor, "id"),
     name |-> Get(hypervisor, "hypervisor_hostname"),
     hypervisor_hostname |-> Get(hypervisor, "hypervisor_hostname"),
     state |-> Get(hypervisor, "state"),
     status |-> Get(hypervisor, "status"),
     vcpus |-> Get(hypervisor, "vcpus"),
     vcpus_used |-> Get(hypervisor, "vcpus_used"),
     memory_mb |-> Get(hypervisor, "memory_mb"),
     memory_mb_used |-> Get(hypervisor, "memory_mb_used"),
     local_gb |-> Get(hypervisor, "local_gb"),
     local_gb_used |-> Get(hypervisor, "local_gb_used"),
     free_ram_mb |-> Get(hypervisor, "free_ram_mb"),
     free_disk_gb |-> Get(hypervisor, "free_disk_gb"),
     running_vms |-> Get(hypervisor, "running_vms"),
     hypervisor_type |-> Get(hypervisor, "hypervisor_type"),
     hypervisor_version |-> Get(hypervisor, "hypervisor_version")]

NormFlavor(flavor) ==
    [id |-> Get(flavor, "id"),
     name |-> Get(flavor, "name"),
     vcpus |-> Get(flavor, "vcpus"),
     ram |-> Get(flavor, "ram"),
     disk |-> Get(flavor, "disk"),
     ephemeral |-> Get(flavor, "OS-FLV-EXT-DATA:ephemeral"),
     swap |-> GetD(flavor, "swap", Some(0)),
     is_public |-> Get(flavor, "os-flavor-access:is_public")]

NormImage(image) ==
    [id |-> Get(image, "id"),
     name |-> Get(image, "name"),
     status |-> Get(image, "status"),
     created |-> Get(image, "created"),
     updated |-> Get(image, "updated"),
     size |-> Get(image, "size"),
     min_disk |-> Get(image, "minDisk"),
     min_ram |-> Get(image, "minRam"),
     progress |-> Get(image, "progress")]

NormVolume(volume) ==
    [id |-> Get(volume, "id"),
     name |-> Get(volume, "name"),
     status |-> Get(volume, "status"),
     size |-> Get(volume, "size"),
     volume_type |-> Get(volume, "volume_type"),
     created_at |-> Get(volume, "created_at"),
     attachments |-> GetD(volume, "attachments", Some(<<>>)),
     availability_zone |-> Get(volume, "availability_zone")]

NormVolumeType(vtype) ==
    [id |-> Get(vtype, "id"),
     name |-> Get(vtype, "name"),
     description |-> Get(vtype, "description"),
     is_public |-> Get(vtype, "is_public"),
     extra_specs |-> GetD(vtype, "extra_specs", Some(NoKeys))]

NormNetwork(network) ==
    [id |-> Get(network, "id"),
     name |-> Get(network, "name"),
     status |-> Get(network, "status"),
     admin_state_up |-> Get(network, "admin_state_up"),
     shared |-> Get(network, "shared"),
     external |-> Get(network, "router:external"),
     provider_network_type |-> Get(network, "provider:network_type"),
     subnets |-> GetD(network, "subnets", Some(<<>>))]

NormSubnet(subnet) ==
    [id |-> Get(subnet, "id"),
     name |-> Get(subnet, "name"),
     network_id |-> Get(subnet, "network_id"),
     cidr |-> Get(subnet, "cidr"),
     ip_version |-> Get(subnet, "ip_version"),
     gateway_ip |-> Get(subnet, "gateway_ip"),
     enable_dhcp |-> Get(subnet, "enable_dhcp"),
     allocation_pools |-> GetD(subnet, "allocation_pools", Some(<<>>))]

NormRouter(router) ==
    [id |-> Get(router, "id"),
     name |-> Get(router, "name"),
     status |-> Get(router, "status"),
     admin_state_up |-> Get(router, "admin_state_up"),
     external_gateway_info |-> Get(router, "external_gateway_info"),
     ha |-> Get(router, "ha"),
     distributed |-> Get(router, "distributed")]

\* the normalised record of a raw record of one kind
Normalised(key, record) ==
    CASE key = "servers" -> NormServer(record)
      [] key = "hypervisors" -> NormHypervisor(record)
      [] key = "flavors" -> NormFlavor(record)
      [] key = "images" -> NormImage(record)
      [] key = "volumes" -> NormVolume(record)
      [] key = "volume_types" -> NormVolumeType(record)
      [] key = "networks" -> NormNetwork(record)
      [] key = "subnets" -> NormSubnet(record)
      [] key = "routers" -> NormRouter(record)

\* the body of a listing operation around its _api_call: the list under the
\* key, each record normalised; any exception is printed and [] returned.
\* Only a server's normalisation can raise.
Listing(r, key) ==
    LET items == GetD(r.value, key, <<>>)
    IN IF r.raised THEN Swallow(r.c, <<>>)
       ELSE IF key = "servers" /\ \E i \in DOMAIN items : FlavorRefRaises(items[i])
       THEN Swallow(r.c, <<>>)
       ELSE [c |-> r.c, raised |-> FALSE,
             value |-> [i \in DOMAIN items |-> Normalised(key, items[i])]]

list_servers(c) ==
    Listing(api_call(c, "/servers/detail", "nova"), "servers")

list_hypervisors(c) ==
    Listing(api_call(c, "/os-hypervisors/detail", "nova"), "hypervisors")

list_flavors(c) ==
    Listing(api_call(c, "/flavors/detail", "nova"), "flavors")

list_images(c) ==
    Listing(api_call(c, "/images/detail", "nova"), "images")

list_volumes(c) ==
    Listing(api_call(c, "/volumes/detail", "cinder"), "volumes")

list_volume_types(c) ==
    Listing(api_call(c, "/types", "cinder"), "volume_types")

list_networks(c) ==
    Listing(api_call(c, "/networks", "neutron"), "networks")

list_subnets(c) ==
    Listing(api_call(c, "/subnets", "neutron"), "subnets")

list_routers(c) ==
    Listing(api_call(c, "/routers", "neutron"), "routers")

-----------------------------------------------------------------------------
(* The deployments the model runs against: raw records as the services      *)
(* return them, complete or sparse, and the services' failure modes.        *)

Name(prefix, i) == prefix \o ToString(i)

RawServer(i, status, name, flavor, power_state) ==
    Field("id", Some(Name("s", i))) @@ Field("name", name) @@ Field("status", status)
    @@ Field("flavor", flavor) @@ Field("OS-EXT-STS:power_state", power_state)
    @@ Field("OS-EXT-SRV-ATTR:host", Some("h1")) @@ Field("image", Some([id |-> Some("img1")]))

RawHypervisor(i, cpu, mem, disk, status, running_vms, hostname) ==
    Field("id", Some(i)) @@ Field("hypervisor_hostname", hostname)
    @@ Field("status", status) @@ Field("state", Some("up"))
    @@ Field("vcpus", cpu[1]) @@ Field("vcpus_used", cpu[2])
    @@ Field("memory_mb", mem[1]) @@ Field("memory_mb_used", mem[2])
    @@ Field("local_gb", disk[1]) @@ Field("local_gb_used", disk[2])
    @@ Field("running_vms", running_vms)

RawFlavor(i, name, is_public) ==
    Field("id", Some(Name("f", i))) @@ Field("name", name)
    @@ Field("vcpus", Some(i)) @@ Field("ram", Some(512 * i)) @@ Field("disk", Some(1))
    @@ Field("os-flavor-access:is_public", is_public)

RawVolume(i, status, size) ==
    Field("id", Some(Name("v", i))) @@ Field("name", Some(Name("vol", i)))
    @@ Field("status", status) @@ Field("size", size)

RawNetwork(i, status, external) ==
    Field("id", Some(Name("n", i))) @@ Field("name", Some(Name("net", i)))
    @@ Field("status", status) @@ Field("router:external", external)
    @@ Field("shared", Some(FALSE))

BaseServer(i) == RawServer(i, Some("ACTIVE"), Some(Name("vm", i)), Some([id |-> Some("f1")]), Some(1))
BaseCpu == <<Some(50), Some(20)>>
BaseMem == <<Some(10), Some(8)>>
BaseDisk == <<Some(10), Some(5)>>
BaseHypervisor(i) ==
    RawHypervisor(i, BaseCpu, BaseMem, BaseDisk, Some("enabled"), Some(1), Some(Name("h", i)))

BaseCloud ==
    [servers |-> <<BaseServer(1)>>,
     hypervisors |-> <<BaseHypervisor(1)>>,
     flavors |-> <<RawFlavor(1, Some("flavor1"), Some(TRUE))>>,
     images |-> <<[id |-> Some("img1"), name |-> Some("cirros"), status |-> Some("ACTIVE")]>>,
     volumes |-> <<RawVolume(1, Some("in-use"), Some(10))>>,
     volume_types |-> <<[id |-> Some("vt1"), name |-> Some("lvm"), is_public |-> Some(TRUE)]>>,
     networks |-> <<RawNetwork(1, Some("ACTIVE"), Some(TRUE))>>,
     subnets |-> <<[id |-> Some("sub1"), ip_version |-> Some(4), enable_dhcp |-> Some(TRUE)]>>,
     routers |-> <<[id |-> Some("r1"), status |-> Some("ACTIVE"),
                    external_gateway_info |-> Some([network_id |-> Some("n1")])]>>,
     down |-> {},
     auth |-> "ok",
     strict |-> FALSE,
     fault |-> "status"]

\* one server of every status and power state
ClassifierServers ==
    {<<RawServer(1, status, Some("vm1"), Some([id |-> Some("f1")]), power_state)>> :
        status \in {Absent, Some("ACTIVE"), Some("ERROR"), Some("SHUTOFF"),
                    Some("SUSPENDED"), Some("BUILD")},
        power_state \in {Absent, None, Some(0), Some(1)}}

\* up to MaxServers servers, healthy or in error, named or not
ErrorServers ==
    SeqsUpTo([i \in 1..MaxServers |->
                {RawServer(i, status, name, Some([id |-> Some("f1")]), Some(1)) :
                    status \in {Absent, Some("ACTIVE"), Some("ERROR")},
                    name \in {Absent, None, Some(Name("vm", i))}}],
             MaxServers)

\* per-hypervisor capacity figures: (total, used) for vcpus, memory and disk
CpuFigures == {<<Some(50), Some(60)>>, <<Some(50), Some(25)>>, <<Some(50), Some(45)>>,
               <<Some(160), Some(23)>>,
               <<Some(0), Some(0)>>, <<Absent, Some(4)>>, <<Some(5), Absent>>}
MemFigures == {<<Some(10), Some(9)>>, <<Some(0), Some(0)>>, <<Absent, Some(8)>>}
DiskFigures == {<<Some(0), Some(0)>>, <<Some(10), Absent>>}

HypervisorRecords(i) ==
    LET host == Some(Name("h", i))
    IN {BaseHypervisor(i),
        RawHypervisor(i, <<Some(50), Some(60)>>, <<Some(10), Some(9)>>, BaseDisk,
                      Some("enabled"), Some(1), host),
        RawHypervisor(i, <<Some(0), Some(0)>>, BaseMem, BaseDisk, Some("enabled"), Some(1), host),
        RawHypervisor(i, BaseCpu, <<Some(0), Some(0)>>, BaseDisk, Some("enabled"), Some(1), host),
        RawHypervisor(i, BaseCpu, BaseMem, <<Some(0), Some(0)>>, Some("enabled"), Some(1), host),
        RawHypervisor(i, BaseCpu, BaseMem, BaseDisk, Some("disabled"), Some(1), host)}
       \cup IF i > 1 THEN {}
            ELSE {RawHypervisor(i, cpu, BaseMem, BaseDisk, Some("enabled"), Some(1), host) : cpu \in CpuFigures}
                 \cup {RawHypervisor(i, BaseCpu, mem, BaseDisk, Some("enabled"), Some(1), host) : mem \in MemFigures}
                 \cup {RawHypervisor(i, BaseCpu, BaseMem, disk, Some("enabled"), Some(1), host) : disk \in DiskFigures}
                 \cup {RawHypervisor(i, BaseCpu, BaseMem, BaseDisk, Absent, Some(1), host),
                       RawHypervisor(i, BaseCpu, BaseMem, BaseDisk, Some("enabled"), Absent, host),
                       RawHypervisor(i, BaseCpu, BaseMem, BaseDisk, Some("enabled"), Some(1), Absent)}

\* up to MaxHypervisors hypervisors; the first one possibly sparse
Hypervisors == SeqsUpTo([i \in 1..MaxHypervisors |-> HypervisorRecords(i)], MaxHypervisors)

\* up to MaxFlavors flavors, the first three public or private; the first one
\* possibly sparse
FlavorRecords(i) ==
    {RawFlavor(i, Some(Name("flavor", i)), Some(pub)) :
        pub \in IF i <= 3 THEN BOOLEAN ELSE {TRUE}}
    \cup IF i = 1 THEN {RawFlavor(i, Some("flavor1"), Absent), RawFlavor(i, Absent, Some(TRUE))}
         ELSE {}

Flavors == SeqsUpTo([i \in 1..MaxFlavors |-> FlavorRecords(i)], MaxFlavors)

\* servers referring to a listed flavor, to an unlisted one, or to none
FlavorUsers ==
    {<<>>,
     <<RawServer(1, Some("ACTIVE"), Some("vm1"), Some([id |-> Some("f1")]), Some(1))>>,
     <<RawServer(1, Some("ACTIVE"), Some("vm1"), Some([id |-> Some("f2")]), Some(1)),
       RawServer(2, Some("ACTIVE"), Some("vm2"), Some([id |-> Some("fX")]), Some(1))>>,
     <<RawServer(1, Some("ACTIVE"), Some("vm1"), Some([id |-> Some("f6")]), Some(1)),
       RawServer(2, Some("ACTIVE"), Some("vm2"), Absent, Some(1))>>}

Volumes ==
    SeqsUpTo([i \in 1..MaxVolumes |->
                {RawVolume(i, status, size) :
                    status \in {Absent, Some("available"), Some("in-use")},
                    size \in {Absent, Some(10)}}],
             MaxVolumes)

\* up to MaxStatusServers servers, each ACTIVE, in ERROR or SHUTOFF (the first
\* one ACTIVE)
StatusServers ==
    SeqsUpTo([i \in 1..MaxStatusServers |->
                {RawServer(i, Some(status), Some(Name("vm", i)), Some([id |-> Some("f1")]),
                           Some(1)) :
                    status \in IF i = 1 THEN {"ACTIVE"} ELSE {"ACTIVE", "ERROR", "SHUTOFF"}}],
             MaxStatusServers)

\* servers whose flavor or image is null, alone or after a complete record
NullReferenceServers ==
    {<<RawServer(1, Some("ACTIVE"), Some("vm1"), None, Some(1))>>,
     <<BaseServer(1), RawServer(2, Some("ACTIVE"), Some("vm2"), None, Some(1))>>,
     <<BaseServer(1), Field("image", None)
                      @@ RawServer(2, Some("ACTIVE"), Some("vm2"), Some([id |-> Some("f1")]),
                                   Some(1))>>}

\* deployments in which each of the five recommendation rules fires or not
RuleClouds ==
    {[BaseCloud EXCEPT
        !.servers = <<RawServer(1, server_status, Some("vm1"), Some([id |-> Some("f1")]),
                                Some(1))>>,
        !.hypervisors = <<RawHypervisor(1, cpu, mem, BaseDisk, status, Some(1), Some("h1"))>>,
        !.flavors = flavors] :
        server_status \in {Some("ACTIVE"), Some("ERROR")},
        cpu \in {BaseCpu, <<Some(50), Some(60)>>},
        mem \in {BaseMem, <<Some(10), Some(9)>>},
        status \in {Some("enabled"), Some("disabled")},
        flavors \in {<<RawFlavor(1, Some("flavor1"), Some(TRUE))>>,
                     <<RawFlavor(1, Some("flavor1"), Some(TRUE)),
                       RawFlavor(2, Some("flavor2"), Some(TRUE))>>}}

\* the nine collections generate_inventory_report gathers, in call order
InventoryKinds == <<"servers", "hypervisors", "flavors", "images", "volumes",
                    "volume_types", "networks", "subnets", "routers">>

\* deployments in which any of the nine collections is empty, and some of
\* them with a volume service that does not answer
EmptyClouds ==
    {[kind \in DOMAIN BaseCloud |-> IF kind \in empty THEN <<>> ELSE BaseCloud[kind]] :
        empty \in SUBSET {InventoryKinds[i] : i \in DOMAIN InventoryKinds}}
    \cup {[BaseCloud EXCEPT !.flavors = <<>>, !.networks = networks, !.down = {"cinder"}] :
            networks \in {<<>>, BaseCloud.networks}}

Services == {"nova", "cinder", "neutron"}

\* deployments with failing services, each with standard output open or gone
FailureClouds ==
    {f \in {[BaseCloud EXCEPT !.down = down, !.auth = auth, !.strict = strict,
                              !.fault = fault] :
                down \in SUBSET Services, auth \in {"ok", "fail", "unscoped"},
                strict \in BOOLEAN, fault \in {"transport", "status", "decoding"}} :
        f.down = {} => f.fault = "status"}

\* deployments whose services all answer, with every mix of records
DataClouds ==
    {[BaseCloud EXCEPT !.servers = servers] :
        servers \in ClassifierServers \cup ErrorServers \cup StatusServers
                    \cup NullReferenceServers}
    \cup {[BaseCloud EXCEPT !.hypervisors = hypervisors] : hypervisors \in Hypervisors}
    \cup {[BaseCloud EXCEPT !.flavors = flavors, !.servers = servers] :
            flavors \in Flavors, servers \in FlavorUsers}
    \cup {[BaseCloud EXCEPT !.volumes = volumes] : volumes \in Volumes}
    \cup RuleClouds
    \cup EmptyClouds

FreshClient == [token |-> None, project_id |-> None, sent |-> <<>>]

Init ==
    /\ \/ cloud \in FailureClouds /\ stdout_ok \in BOOLEAN
       \/ cloud \in DataClouds /\ stdout_ok = TRUE
    /\ token = None
    /\ project_id = None
    /\ sent = <<>>
    /\ result = [tool |-> "none"]

\* every tool call starts from the client's fields, with an empty request log
Client == [token |-> token, project_id |-> project_id, sent |-> <<>>]

\* no call is being served
Idle == result.tool = "none"

\* the end of _execute_tool: the client's fields as the call left them, and
\* the outcome handle_call_tool is about to serialise
Return(tool, arg, locals, r) ==
    /\ Idle
    /\ token' = r.c.token
    /\ project_id' = r.c.project_id
    /\ sent' = r.c.sent
    /\ result' = [tool |-> tool, arg |-> arg, locals |-> locals,
                  raised |-> r.raised,
                  value |-> IF r.raised THEN None ELSE r.value,
                  error |-> IF r.raised THEN r.error ELSE ""]
    /\ UNCHANGED <<cloud, stdout_ok>>

-----------------------------------------------------------------------------
(* OpenStackClient: detail lookups and server analysis *)

\* the body of get_server_details around its _api_call
ServerDetails(r) ==
    LET server == GetD(r.value, "server", NoKeys)
    IN IF r.raised THEN Swallow(r.c, None)
       ELSE IF FlavorRefRaises(server) THEN Swallow(r.c, None)
       ELSE [c |-> r.c, raised |-> FALSE,
             value |-> Some([id |-> Get(server, "id"),
                             name |-> Get(server, "name"),
                             status |-> Get(server, "status"),
                             host |-> Get(server, "OS-EXT-SRV-ATTR:host"),
                             flavor |-> FlavorRef(server),
                             image |-> ImageRef(server),
                             fault |-> Get(server, "fault"),
                             power_state |-> Get(server, "OS-EXT-STS:power_state"),
                             task_state |-> Get(server, "OS-EXT-STS:task_state"),
                             created |-> Get(server, "created"),
                             updated |-> Get(server, "updated"),
                             addresses |-> GetD(server, "addresses", Some(NoKeys)),
                             metadata |-> GetD(server, "metadata", Some(NoKeys))])]

get_server_details(c, server_id) ==
    ServerDetails(api_call(c, "/servers/" \o server_id, "nova"))

\* the body of get_flavor_details around its _api_call
FlavorDetails(r) ==
    LET flavor == GetD(r.value, "flavor", NoKeys)
    IN IF r.raised THEN Swallow(r.c, None)
       ELSE [c |-> r.c, raised |-> FALSE,
             value |-> Some([id |-> Get(flavor, "id"),
                             name |-> Get(flavor, "name"),
                             vcpus |-> Get(flavor, "vcpus"),
                             ram |-> Get(flavor, "ram"),
                             disk |-> Get(flavor, "disk"),
                             ephemeral |-> Get(flavor, "OS-FLV-EXT-DATA:ephemeral"),
                             swap |-> GetD(flavor, "swap", Some(0)),
                             is_public |-> Get(flavor, "os-flavor-access:is_public"),
                             extra_specs |-> GetD(flavor, "OS-FLV-WITH-EXT-SPECS:extra_specs",
                                                  Some(NoKeys))])]

get_flavor_details(c, flavor_id) ==
    FlavorDetails(api_call(c, "/flavors/" \o flavor_id, "nova"))

\* the body of get_image_details around its _api_call
ImageDetails(r) ==
    LET image == GetD(r.value, "image", NoKeys)
    IN IF r.raised THEN Swallow(r.c, None)
       ELSE [c |-> r.c, raised |-> FALSE,
             value |-> Some([id |-> Get(image, "id"),
                             name |-> Get(image, "name"),
                             status |-> Get(image, "status"),
                             created |-> Get(image, "created"),
                             updated |-> Get(image, "updated"),
                             size |-> Get(image, "size"),
                             min_disk |-> Get(image, "minDisk"),
                             min_ram |-> Get(image, "minRam"),
                             progress |-> Get(image, "progress"),
                             metadata |-> GetD(image, "metadata", Some(NoKeys))])]

get_image_details(c, image_id) ==
    ImageDetails(api_call(c, "/images/" \o image_id, "nova"))

\* HealthStatus without the power state check
HealthStatus_Mut(server) ==
    IF server.status = Some("ACTIVE") THEN "healthy"
    ELSE IF server.status = Some("ERROR") THEN "error"
    ELSE IF server.status \in {Some("SHUTOFF"), Some("SUSPENDED")} THEN "stopped"
    ELSE "transitioning"

\* the health decision of analyze_server_resources, first match wins
HealthStatus(server) ==
    IF server.status = Some("ACTIVE") /\ server.power_state = Some(1) THEN "healthy"
    ELSE IF server.status = Some("ERROR") THEN "error"
    ELSE IF server.status \in {Some("SHUTOFF"), Some("SUSPENDED")} THEN "stopped"
    ELSE "transitioning"

\* next((h for h in hypervisors if h.get('hypervisor_hostname') == host), None)
FirstOnHost(hypervisors, host) ==
    LET hits == {i \in DOMAIN hypervisors : hypervisors[i].hypervisor_hostname = host}
    IN IF hits = {} THEN None
       ELSE Some(hypervisors[CHOOSE i \in hits : \A j \in hits : i <= j])

\* the analysis document, from the server, its flavor and its hypervisor
Analysis(server, flavor_details, hypervisor_info) ==
    [server_info |-> [id |-> server.id, name |-> server.name,
                      status |-> server.status, host |-> server.host,
                      created |-> server.created],
     resource_allocation |->
         IF flavor_details # None
         THEN [vcpus |-> flavor_details[1].vcpus, ram_mb |-> flavor_details[1].ram,
               disk_gb |-> flavor_details[1].disk,
               ephemeral_gb |-> flavor_details[1].ephemeral]
         ELSE NoKeys,
     host_analysis |->
         IF hypervisor_info # None
         THEN [hypervisor |-> hypervisor_info[1].hypervisor_hostname,
               hypervisor_status |-> hypervisor_info[1].status,
               hypervisor_state |-> hypervisor_info[1].state,
               total_vcpus |-> hypervisor_info[1].vcpus,
               used_vcpus |-> hypervisor_info[1].vcpus_used,
               total_memory_mb |-> hypervisor_info[1].memory_mb,
               used_memory_mb |-> hypervisor_info[1].memory_mb_used,
               running_vms |-> hypervisor_info[1].running_vms]
         ELSE NoKeys,
     health_status |-> HealthStatus(server)]

\* after the hypervisors were listed (or the server has no host)
AnalyzeOnHost(server, flavor_details, hypervisors) ==
    IF hypervisors.raised THEN Swallow(hypervisors.c, None)
    ELSE [c |-> hypervisors.c, raised |-> FALSE,
          value |-> Some(Analysis(server, flavor_details.value,
                                  IF TruthyStr(server.host)
                                  THEN FirstOnHost(hypervisors.value, server.host)
                                  ELSE None))]

\* after the flavor was looked up (or the server names no flavor)
AnalyzeWithFlavor(server, flavor_details) ==
    IF flavor_details.raised THEN Swallow(flavor_details.c, None)
    ELSE AnalyzeOnHost(server, flavor_details,
                       IF TruthyStr(server.host) THEN list_hypervisors(flavor_details.c)
                       ELSE [c |-> flavor_details.c, raised |-> FALSE, value |-> <<>>])

\* after the server was looked up
AnalyzeServer(found) ==
    IF found.raised THEN Swallow(found.c, None)
    ELSE IF found.value = None THEN [c |-> found.c, raised |-> FALSE, value |-> None]
    ELSE AnalyzeWithFlavor(found.value[1],
                           IF TruthyStr(found.value[1].flavor)
                           THEN get_flavor_details(found.c, found.value[1].flavor[1])
                           ELSE [c |-> found.c, raised |-> FALSE, value |-> None])

analyze_server_resources(c, server_id) ==
    AnalyzeServer(get_server_details(c, server_id))

-----------------------------------------------------------------------------
(* Arithmetic of the report, as Python evaluates it *)

RECURSIVE SumFrom(_, _, _)
\* sum(...) over encoded values: adding None to a number is a TypeError
SumFrom(values, i, acc) ==
    IF i > Len(values) THEN Ok(acc)
    ELSE IF values[i] = None THEN Raise("TypeError")
    ELSE SumFrom(values, i + 1, acc + values[i][1])

\* sum(r.get(key, 0) for r in records): the normalised records hold every
\* key, so the default 0 is used only if the key were missing
SumOf(records, key) ==
    SumFrom([i \in DOMAIN records |-> GetD(records[i], key, Some(0))], 1, 0)

\* min(..., default=0) and max(..., default=0): comparing None with a number
\* is a TypeError; a single element is returned without a comparison
Extreme(records, key, least) ==
    LET values == [i \in DOMAIN records |-> GetD(records[i], key, Some(0))]
        numbers == {values[i][1] : i \in DOMAIN values}
    IN IF Len(values) = 0 THEN Ok(Some(0))
       ELSE IF Len(values) = 1 THEN Ok(values[1])
       ELSE IF \E i \in DOMAIN values : values[i] = None THEN Raise("TypeError")
       ELSE Ok(Some(CHOOSE n \in numbers :
                        \A m \in numbers : IF least THEN n <= m ELSE n >= m))

(* Python floats are IEEE 754 binary64. A positive float is [m, e]: m its   *)
(* Precision significand bits, least significant first, and e the exponent  *)
(* of m[1], so that its value is the number m spells times 2^e. Long        *)
(* numbers are handled four bits (one hexadecimal digit) at a time.         *)
Precision == 53

Abs(n) == IF n < 0 THEN -n ELSE n

BitAt(bits, i) == IF i \in DOMAIN bits THEN bits[i] ELSE 0

RECURSIVE HexOf(_)
\* the hexadecimal digits of n >= 0, least significant first
HexOf(n) == IF n = 0 THEN <<>> ELSE <<n % 16>> \o HexOf(n \div 16)

RECURSIVE ValueOf(_, _)
\* the integer spelled by the hexadecimal digits from position i upwards
ValueOf(digits, i) ==
    IF i > Len(digits) THEN 0 ELSE digits[i] + 16 * ValueOf(digits, i + 1)

\* the bits of hexadecimal digits whose last digit is not 0, without
\* leading zeros
BitsOf(digits) ==
    LET top == digits[Len(digits)]
        width == IF top >= 8 THEN 4 ELSE IF top >= 4 THEN 3
                 ELSE IF top >= 2 THEN 2 ELSE 1
    IN [i \in 1..(4 * (Len(digits) - 1) + width) |->
           (digits[(i - 1) \div 4 + 1] \div <<1, 2, 4, 8>>[((i - 1) % 4) + 1]) % 2]

\* the hexadecimal digits of bits
DigitsOf(bits) ==
    [j \in 1..((Len(bits) + 3) \div 4) |->
        BitAt(bits, 4 * j - 3) + 2 * BitAt(bits, 4 * j - 2)
            + 4 * BitAt(bits, 4 * j - 1) + 8 * BitAt(bits, 4 * j)]

RECURSIVE TimesFrom(_, _, _, _)
TimesFrom(digits, i, carry, acc) ==
    IF i > Len(digits) THEN acc \o HexOf(carry)
    ELSE LET product == digits[i] * 100 + carry
         IN TimesFrom(digits, i + 1, product \div 16, Append(acc, product % 16))

\* the bits of 100 times the number bits spell
Times100(bits) == BitsOf(TimesFrom(DigitsOf(bits), 1, 0, <<>>))

\* bits plus one
Increment(bits) ==
    IF \A i \in DOMAIN bits : bits[i] = 1
    THEN [i \in 1..(Len(bits) + 1) |-> IF i > Len(bits) THEN 1 ELSE 0]
    ELSE LET zero == CHOOSE i \in DOMAIN bits :
                         bits[i] = 0 /\ \A j \in 1..(i - 1) : bits[j] = 1
         IN [i \in DOMAIN bits |->
                IF i < zero THEN 0 ELSE IF i = zero THEN 1 ELSE bits[i]]

\* the float nearest to the exact value bits * 2^e, ties to even; sticky
\* tells of nonzero digits below bits[1]
RoundFloat(bits, e, sticky) ==
    LET d == Len(bits) - Precision
        kept == SubSeq(bits, d + 1, Len(bits))
        half == d > 0 /\ bits[d] = 1
        below == sticky \/ \E i \in 1..(d - 1) : bits[i] = 1
        sum == IF half /\ (below \/ kept[1] = 1) THEN Increment(kept) ELSE kept
    IN IF Len(sum) > Precision
       THEN [m |-> SubSeq(sum, 2, Len(sum)), e |-> e + d + 1]
       ELSE [m |-> sum, e |-> e + d]

RECURSIVE Quotient(_, _, _, _)
\* long division: the hexadecimal digits of r / total after the point are
\* put below digits until more than Precision + 1 significant bits stand
Quotient(r, total, digits, e) ==
    IF 4 * Len(digits) >= Precision + 5
    THEN RoundFloat(BitsOf(digits), e, r # 0)
    ELSE LET digit == (16 * r) \div total
         IN Quotient((16 * r) % total, total,
                     IF digits = <<>> /\ digit = 0 THEN digits
                     ELSE <<digit>> \o digits,
                     e - 4)

\* used / total for integers used > 0 and 0 < total < 2^27
Divide(used, total) == Quotient(used % total, total, HexOf(used \div total), 0)

\* x * 100
Product(x) == RoundFloat(Times100(x.m), x.e, FALSE)

\* round(x, 2) in hundredths: the decimal nearest to the float's exact
\* value, ties to even (x < 2^52, so that x.e < 0)
RoundHundredths(x) ==
    LET p == Times100(x.m)
        f == 0 - x.e
        whole == ValueOf(DigitsOf(SubSeq(p, f + 1, Len(p))), 1)
        half == BitAt(p, f) = 1
        below == \E i \in 1..(f - 1) : BitAt(p, i) = 1
    IN IF half /\ (below \/ whole % 2 = 1) THEN whole + 1 ELSE whole

\* the exact fraction num / den in hundredths: whole hundredths and what is
\* left of den (num >= 0, den > 0)
Hundredths(num, den) ==
    LET rest == 100 * (num % den)
    IN [whole |-> 100 * (num \div den) + rest \div den, left |-> rest % den]

\* round((used / den * 100), 2) in hundredths, with num = used * 100 as every
\* caller passes it. The division and the product are each rounded to a
\* float before round() looks at the result; the two errors together are
\* below 2^-51 of the value, and the exact fraction is either at a tie of
\* the hundredths or at least 1 / (2 * den) hundredths from it. Off the ties
\* round() therefore gives the hundredth nearest to the exact fraction; at a
\* tie the float decides, which lies below, on or above the tie
Round2(num, den) ==
    IF num = 0 THEN 0
    ELSE LET exact == Hundredths(Abs(num), Abs(den))
             magnitude ==
                 IF 2 * exact.left < Abs(den) THEN exact.whole
                 ELSE IF 2 * exact.left > Abs(den) THEN exact.whole + 1
                 ELSE RoundHundredths(Product(Divide(Abs(num) \div 100, Abs(den))))
         IN IF (num < 0) = (den < 0) THEN magnitude ELSE 0 - magnitude

\* a utilization capped at 100 percent
UtilizationPercent_Mut(used, total) ==
    IF total > 0 THEN (IF used > total THEN 10000 ELSE Round2(used * 100, total)) ELSE 0

\* round((used / total * 100), 2) if total > 0 else 0
UtilizationPercent(used, total) ==
    IF total > 0 THEN Round2(used * 100, total) ELSE 0

\* Above80 with >= for >
Above80_Mut(used, total) ==
    IF total > 0 THEN used * 5 >= total * 4 ELSE used * 5 <= total * 4

\* (used / total) > 0.8 for integers, total # 0: the float 0.8 is the float
\* of 4 / 5, and a quotient of integers on the other side of 4 / 5 is far
\* from it, so the floats compare as the fractions do
Above80(used, total) ==
    IF total > 0 THEN used * 5 > total * 4 ELSE used * 5 < total * 4

\* len([r for r in records if r.get(key) == value])
CountWhere(records, key, value) ==
    Cardinality({i \in DOMAIN records : Get(records[i], key) = value})

\* [f(r) for r in records if keep(r)] for the positions in kept
RECURSIVE Filtered(_, _, _)
Filtered(records, kept, i) ==
    IF i > Len(records) THEN <<>>
    ELSE IF i \in kept THEN <<records[i]>> \o Filtered(records, kept, i + 1)
    ELSE Filtered(records, kept, i + 1)

\* a tabulator that forgets the count it already holds
get_status_breakdown_Mut(resources, status_field) ==
    [status \in {GetD(resources[i], status_field, Some("unknown")) : i \in DOMAIN resources}
        |-> 1]

RECURSIVE StatusCount(_, _, _, _)
\* the loop of _get_status_breakdown from the i-th resource on:
\* status_count[status] = status_count.get(status, 0) + 1
StatusCount(resources, status_field, i, status_count) ==
    IF i > Len(resources) THEN status_count
    ELSE LET status == GetD(resources[i], status_field, Some("unknown"))
             seen == IF status \in DOMAIN status_count THEN status_count[status] ELSE 0
         IN StatusCount(resources, status_field, i + 1,
                        (status :> seen + 1) @@ status_count)

\* _get_status_breakdown
get_status_breakdown(resources, status_field) ==
    StatusCount(resources, status_field, 1, NoKeys)

-----------------------------------------------------------------------------
(* OpenStackClient.generate_inventory_report *)

ListOf(kind, c) ==
    CASE kind = "servers" -> list_servers(c)
      [] kind = "hypervisors" -> list_hypervisors(c)
      [] kind = "flavors" -> list_flavors(c)
      [] kind = "images" -> list_images(c)
      [] kind = "volumes" -> list_volumes(c)
      [] kind = "volume_types" -> list_volume_types(c)
      [] kind = "networks" -> list_networks(c)
      [] kind = "subnets" -> list_subnets(c)
      [] kind = "routers" -> list_routers(c)

RECURSIVE Gather(_, _, _), GatherNext(_, _, _, _)
\* the listing calls one after the other; the first to raise ends the sequence
Gather(kinds, i, acc) ==
    IF i > Len(kinds) THEN acc
    ELSE GatherNext(kinds, i, acc, ListOf(kinds[i], acc.c))

\* the sequence after its i-th call returned r
GatherNext(kinds, i, acc, r) ==
    IF r.raised THEN [c |-> r.c, raised |-> TRUE, error |-> r.error]
    ELSE Gather(kinds, i + 1, [acc EXCEPT !.c = r.c, !.value = (kinds[i] :> r.value) @@ @])

GatherAll(kinds, c) == Gather(kinds, 1, [c |-> c, raised |-> FALSE, value |-> NoKeys])

SummarySection(d) ==
    [total_resources |-> [servers |-> Len(d.servers), hypervisors |-> Len(d.hypervisors),
                          flavors |-> Len(d.flavors), images |-> Len(d.images),
                          volumes |-> Len(d.volumes), networks |-> Len(d.networks),
                          subnets |-> Len(d.subnets), routers |-> Len(d.routers)],
     server_status_breakdown |-> get_status_breakdown(d.servers, "status"),
     hypervisor_status_breakdown |-> get_status_breakdown(d.hypervisors, "status")]

\* the six capacity sums, in the order the code takes them
CapacitySums(hypervisors) ==
    LET keys == <<"vcpus", "vcpus_used", "memory_mb", "memory_mb_used",
                  "local_gb", "local_gb_used">>
        sums == [i \in DOMAIN keys |-> SumOf(hypervisors, keys[i])]
    IN IF \E i \in DOMAIN sums : sums[i].raised THEN Raise("TypeError")
       ELSE Ok([total_vcpus |-> sums[1].value, used_vcpus |-> sums[2].value,
                total_memory_mb |-> sums[3].value, used_memory_mb |-> sums[4].value,
                total_disk_gb |-> sums[5].value, used_disk_gb |-> sums[6].value])

ErrorServersOf(servers) ==
    Filtered(servers, {i \in DOMAIN servers : Get(servers[i], "status") = Some("ERROR")}, 1)

ComputeSection(d, t, report_format) ==
    LET smallest_vcpu == Extreme(d.flavors, "vcpus", TRUE)
        largest_vcpu == Extreme(d.flavors, "vcpus", FALSE)
        smallest_ram == Extreme(d.flavors, "ram", TRUE)
        largest_ram == Extreme(d.flavors, "ram", FALSE)
        section ==
          [servers |-> [total |-> Len(d.servers),
                        by_status |-> get_status_breakdown(d.servers, "status"),
                        active_servers |-> CountWhere(d.servers, "status", Some("ACTIVE")),
                        error_servers |-> ErrorServersOf(d.servers)],
           hypervisors |->
              [total |-> Len(d.hypervisors),
               enabled |-> CountWhere(d.hypervisors, "status", Some("enabled")),
               capacity |->
                  [vcpus |-> [total |-> t.total_vcpus, used |-> t.used_vcpus,
                              available |-> t.total_vcpus - t.used_vcpus,
                              utilization_percent |->
                                  UtilizationPercent(t.used_vcpus, t.total_vcpus)],
                   memory |-> [total_mb |-> t.total_memory_mb, used_mb |-> t.used_memory_mb,
                               available_mb |-> t.total_memory_mb - t.used_memory_mb,
                               utilization_percent |->
                                  UtilizationPercent(t.used_memory_mb, t.total_memory_mb)],
                   local_storage |->
                              [total_gb |-> t.total_disk_gb, used_gb |-> t.used_disk_gb,
                               available_gb |-> t.total_disk_gb - t.used_disk_gb,
                               utilization_percent |->
                                  UtilizationPercent(t.used_disk_gb, t.total_disk_gb)]]],
           flavors |->
              [total |-> Len(d.flavors),
               public_flavors |->
                  Cardinality({i \in DOMAIN d.flavors : TruthyBool(Get(d.flavors[i], "is_public"))}),
               resource_specs |->
                  [smallest_vcpu |-> smallest_vcpu.value, largest_vcpu |-> largest_vcpu.value,
                   smallest_ram_mb |-> smallest_ram.value, largest_ram_mb |-> largest_ram.value]]]
    IN IF smallest_vcpu.raised \/ largest_vcpu.raised \/ smallest_ram.raised \/ largest_ram.raised
       THEN Raise("TypeError")
       ELSE Ok(IF report_format = "detailed"
               THEN [server_details |-> d.servers, hypervisor_details |-> d.hypervisors,
                     flavor_details |-> d.flavors] @@ section
               ELSE section)

\* StorageSection with the listings left out for "summary" only
StorageSection_Mut(d, report_format) ==
    LET total_volume_size == SumOf(d.volumes, "size")
        in_use_volumes == CountWhere(d.volumes, "status", Some("in-use"))
        section ==
          [volumes |-> [total |-> Len(d.volumes),
                        total_size_gb |-> total_volume_size.value,
                        by_status |-> get_status_breakdown(d.volumes, "status"),
                        available |-> CountWhere(d.volumes, "status", Some("available")),
                        in_use |-> in_use_volumes,
                        attachment_rate |->
                            IF Len(d.volumes) > 0
                            THEN Round2(in_use_volumes * 100, Len(d.volumes)) ELSE 0],
           volume_types |->
              [total |-> Len(d.volume_types),
               public_types |->
                  Cardinality({i \in DOMAIN d.volume_types :
                                  TruthyBool(Get(d.volume_types[i], "is_public"))})]]
    IN IF total_volume_size.raised THEN Raise("TypeError")
       ELSE Ok(IF report_format # "summary"
               THEN [volume_details |-> d.volumes, volume_type_details |-> d.volume_types]
                    @@ section
               ELSE section)

StorageSection(d, report_format) ==
    LET total_volume_size == SumOf(d.volumes, "size")
        in_use_volumes == CountWhere(d.volumes, "status", Some("in-use"))
        section ==
          [volumes |-> [total |-> Len(d.volumes),
                        total_size_gb |-> total_volume_size.value,
                        by_status |-> get_status_breakdown(d.volumes, "status"),
                        available |-> CountWhere(d.volumes, "status", Some("available")),
                        in_use |-> in_use_volumes,
                        attachment_rate |->
                            IF Len(d.volumes) > 0
                            THEN Round2(in_use_volumes * 100, Len(d.volumes)) ELSE 0],
           volume_types |->
              [total |-> Len(d.volume_types),
               public_types |->
                  Cardinality({i \in DOMAIN d.volume_types :
                                  TruthyBool(Get(d.volume_types[i], "is_public"))})]]
    IN IF total_volume_size.raised THEN Raise("TypeError")
       ELSE Ok(IF report_format = "detailed"
               THEN [volume_details |-> d.volumes, volume_type_details |-> d.volume_types]
                    @@ section
               ELSE section)

NetworkingSection(d, report_format) ==
    LET external_networks ==
            Cardinality({i \in DOMAIN d.networks : TruthyBool(Get(d.networks[i], "external"))})
        section ==
          [networks |-> [total |-> Len(d.networks),
                         external |-> external_networks,
                         internal |-> Len(d.networks) - external_networks,
                         shared |-> Cardinality({i \in DOMAIN d.networks :
                                                    TruthyBool(Get(d.networks[i], "shared"))}),
                         by_status |-> get_status_breakdown(d.networks, "status")],
           subnets |-> [total |-> Len(d.subnets),
                        ipv4 |-> CountWhere(d.subnets, "ip_version", Some(4)),
                        ipv6 |-> CountWhere(d.subnets, "ip_version", Some(6)),
                        dhcp_enabled |->
                            Cardinality({i \in DOMAIN d.subnets :
                                            TruthyBool(Get(d.subnets[i], "enable_dhcp"))})],
           routers |-> [total |-> Len(d.routers),
                        active |-> CountWhere(d.routers, "status", Some("ACTIVE")),
                        with_external_gateway |->
                            Cardinality({i \in DOMAIN d.routers :
                                            TruthyDict(Get(d.routers[i], "external_gateway_info"))})]]
    IN IF report_format = "detailed"
       THEN [network_details |-> d.networks, subnet_details |-> d.subnets,
             router_details |-> d.routers] @@ section
       ELSE section

UnusedFlavorLimit == 5

RECURSIVE HighFrom(_, _, _)
\* [h.get('hypervisor_hostname') for h in hypervisors
\*      if (h.get('vcpus_used', 0) / h.get('vcpus', 1)) > 0.8]
HighFrom(hypervisors, i, acc) ==
    IF i > Len(hypervisors) THEN Ok(acc)
    ELSE LET used == GetD(hypervisors[i], "vcpus_used", Some(0))
             vcpus == GetD(hypervisors[i], "vcpus", Some(1))
         IN IF used = None \/ vcpus = None THEN Raise("TypeError")
            ELSE IF vcpus[1] = 0 THEN Raise("ZeroDivisionError")
            ELSE HighFrom(hypervisors, i + 1,
                          IF Above80(used[1], vcpus[1])
                          THEN Append(acc, Get(hypervisors[i], "hypervisor_hostname"))
                          ELSE acc)

high_utilization_hypervisors(hypervisors) == HighFrom(hypervisors, 1, <<>>)

\* {h.get('hypervisor_hostname'): h.get('running_vms', 0) for h in hypervisors}:
\* a later hypervisor of the same hostname replaces an earlier one
servers_per_hypervisor(hypervisors) ==
    LET host(i) == Get(hypervisors[i], "hypervisor_hostname")
    IN [h \in {host(i) : i \in DOMAIN hypervisors} |->
            LET last == CHOOSE i \in DOMAIN hypervisors :
                            /\ host(i) = h
                            /\ \A j \in DOMAIN hypervisors : host(j) = h => j <= i
            IN GetD(hypervisors[last], "running_vms", Some(0))]

UtilizationSection(d, t) ==
    LET high == high_utilization_hypervisors(d.hypervisors)
    IN IF high.raised THEN high
       ELSE Ok([compute_utilization |->
                   [cpu_percent |-> UtilizationPercent(t.used_vcpus, t.total_vcpus),
                    memory_percent |-> UtilizationPercent(t.used_memory_mb, t.total_memory_mb),
                    disk_percent |-> UtilizationPercent(t.used_disk_gb, t.total_disk_gb)],
                high_utilization_hypervisors |-> high.value,
                servers_per_hypervisor |-> servers_per_hypervisor(d.hypervisors)])

\* the CPU and the memory rule
CapacityWarning(resource, used, total) ==
    IF total > 0 /\ Above80(used, total)
    THEN <<[type |-> "capacity_warning", resource |-> resource,
            message |-> [text |-> resource \o " utilization is high",
                         percent |-> Round2(used * 100, total)],
            priority |-> "high"]>>
    ELSE <<>>

\* [s.get('name', s.get('id')) for s in error_servers]
AffectedServers(error_servers) ==
    [i \in DOMAIN error_servers |->
        GetD(error_servers[i], "name", Get(error_servers[i], "id"))]

ErrorServersRule(servers) ==
    LET error_servers == ErrorServersOf(servers)
    IN IF Len(error_servers) > 0
       THEN <<[type |-> "health_issue", resource |-> "Servers",
               message |-> [text |-> "servers are in ERROR state",
                            count |-> Len(error_servers)],
               priority |-> "critical",
               affected_servers |-> AffectedServers(error_servers)]>>
       ELSE <<>>

DisabledHypervisorsRule(hypervisors) ==
    LET disabled_hypervisors ==
            Filtered(hypervisors,
                     {i \in DOMAIN hypervisors : Get(hypervisors[i], "status") # Some("enabled")},
                     1)
    IN IF Len(disabled_hypervisors) > 0
       THEN <<[type |-> "infrastructure_issue", resource |-> "Hypervisors",
               message |-> [text |-> "hypervisors are not enabled",
                            count |-> Len(disabled_hypervisors)],
               priority |-> "medium",
               affected_hypervisors |->
                   [i \in DOMAIN disabled_hypervisors |->
                       Get(disabled_hypervisors[i], "hypervisor_hostname")]]>>
       ELSE <<>>

\* the names of the public flavors no server refers to, in flavor order
UnusedFlavors(flavors, servers) ==
    LET flavor_used(i) ==
            \E j \in DOMAIN servers : Get(servers[j], "flavor") = Get(flavors[i], "id")
        unused == Filtered(flavors,
                           {i \in DOMAIN flavors :
                               ~flavor_used(i) /\ TruthyBool(Get(flavors[i], "is_public"))},
                           1)
    IN [i \in DOMAIN unused |-> Get(unused[i], "name")]

\* UnusedFlavorsRule without the cut to the first five names
UnusedFlavorsRule_Mut(flavors, servers) ==
    LET unused_flavors == UnusedFlavors(flavors, servers)
    IN IF Len(unused_flavors) > 0
       THEN <<[type |-> "optimization", resource |-> "Flavors",
               message |-> [text |-> "public flavors are unused",
                            count |-> Len(unused_flavors)],
               priority |-> "low",
               unused_flavors |-> unused_flavors]>>
       ELSE <<>>

UnusedFlavorsRule(flavors, servers) ==
    LET unused_flavors == UnusedFlavors(flavors, servers)
    IN IF Len(unused_flavors) > 0
       THEN <<[type |-> "optimization", resource |-> "Flavors",
               message |-> [text |-> "public flavors are unused",
                            count |-> Len(unused_flavors)],
               priority |-> "low",
               unused_flavors |->
                   SubSeq(unused_flavors, 1,
                          IF Len(unused_flavors) < UnusedFlavorLimit
                          THEN Len(unused_flavors) ELSE UnusedFlavorLimit)]>>
       ELSE <<>>

\* Recommendations with the error servers rule evaluated first
Recommendations_Mut(d, t) ==
    ErrorServersRule(d.servers)
    \o CapacityWarning("CPU", t.used_vcpus, t.total_vcpus)
    \o CapacityWarning("Memory", t.used_memory_mb, t.total_memory_mb)
    \o DisabledHypervisorsRule(d.hypervisors)
    \o UnusedFlavorsRule(d.flavors, d.servers)

Recommendations(d, t) ==
    CapacityWarning("CPU", t.used_vcpus, t.total_vcpus)
    \o CapacityWarning("Memory", t.used_memory_mb, t.total_memory_mb)
    \o ErrorServersRule(d.servers)
    \o DisabledHypervisorsRule(d.hypervisors)
    \o UnusedFlavorsRule(d.flavors, d.servers)

\* the report once every section is built; the first section to fault ends
\* the assembly
Sections(d, report_format, t, compute, storage, utilization) ==
    IF compute.raised THEN compute
    ELSE IF storage.raised THEN storage
    ELSE IF utilization.raised THEN utilization
    ELSE Ok([report_metadata |->
                [generated_at |-> "now", format |-> report_format,
                 openstack_services |-> <<"nova", "cinder", "neutron", "keystone">>],
             summary |-> SummarySection(d),
             compute |-> compute.value,
             storage |-> storage.value,
             networking |-> NetworkingSection(d, report_format),
             resource_utilization |-> utilization.value,
             recommendations |-> Recommendations(d, t)])

\* the report once the capacity sums are taken
ReportWithSums(d, report_format, sums) ==
    IF sums.raised THEN sums
    ELSE Sections(d, report_format, sums.value,
                  ComputeSection(d, sums.value, report_format),
                  StorageSection(d, report_format),
                  UtilizationSection(d, sums.value))

\* the report from the gathered collections
BuildReport(d, report_format) ==
    ReportWithSums(d, report_format, CapacitySums(d.hypervisors))

\* the outer "except Exception" turns any fault into the error document
ReportDocument(gathered, built) ==
    IF built.raised
    THEN [c |-> gathered.c, raised |-> FALSE, locals |-> gathered.value,
          value |-> [error |-> built.error, timestamp |-> "now"]]
    ELSE [c |-> gathered.c, raised |-> FALSE, locals |-> gathered.value,
          value |-> built.value]

\* a report without the outer handler around the listing calls
ReportOf_Mut(gathered, report_format) ==
    IF gathered.raised
    THEN [c |-> gathered.c, raised |-> TRUE, locals |-> NoKeys, error |-> gathered.error]
    ELSE ReportDocument(gathered, BuildReport(gathered.value, report_format))

\* the report after the listing calls
ReportOf(gathered, report_format) ==
    IF gathered.raised
    THEN [c |-> gathered.c, raised |-> FALSE, locals |-> NoKeys,
          value |-> [error |-> gathered.error, timestamp |-> "now"]]
    ELSE ReportDocument(gathered, BuildReport(gathered.value, report_format))

generate_inventory_report(c, report_format) ==
    ReportOf(GatherAll(InventoryKinds, c), report_format)

-----------------------------------------------------------------------------
(* OpenStackMCPServer: infrastructure summary and resource utilization *)

\* the summary after the four listing calls
SummaryOf(gathered) ==
    LET d == gathered.value
        total_vcpus == SumOf(d.hypervisors, "vcpus")
        used_vcpus == SumOf(d.hypervisors, "vcpus_used")
        total_memory == SumOf(d.hypervisors, "memory_mb")
        used_memory == SumOf(d.hypervisors, "memory_mb_used")
        total_size_gb == SumOf(d.volumes, "size")
    IN IF gathered.raised
       THEN [c |-> gathered.c, raised |-> FALSE, locals |-> NoKeys,
             value |-> [error |-> gathered.error]]
       ELSE IF \/ total_vcpus.raised \/ used_vcpus.raised \/ total_memory.raised
               \/ used_memory.raised \/ total_size_gb.raised
       THEN [c |-> gathered.c, raised |-> FALSE, locals |-> d,
             value |-> [error |-> "TypeError"]]
       ELSE [c |-> gathered.c, raised |-> FALSE, locals |-> d,
             value |->
               [timestamp |-> "current",
                compute |->
                  [servers |-> [total |-> Len(d.servers),
                                by_status |-> get_status_breakdown(d.servers, "status")],
                   hypervisors |->
                     [total |-> Len(d.hypervisors),
                      vcpus |-> [total |-> total_vcpus.value, used |-> used_vcpus.value,
                                 available |-> total_vcpus.value - used_vcpus.value,
                                 utilization_percent |->
                                    UtilizationPercent(used_vcpus.value, total_vcpus.value)],
                      memory |-> [total_mb |-> total_memory.value,
                                  used_mb |-> used_memory.value,
                                  available_mb |-> total_memory.value - used_memory.value,
                                  utilization_percent |->
                                    UtilizationPercent(used_memory.value, total_memory.value)]]],
                storage |-> [volumes |-> [total |-> Len(d.volumes),
                                          total_size_gb |-> total_size_gb.value]],
                network |->
                  [networks |->
                     [total |-> Len(d.networks),
                      external |-> Cardinality({i \in DOMAIN d.networks :
                                       TruthyBool(Get(d.networks[i], "external"))})]]]]

get_infrastructure_summary(c) ==
    SummaryOf(GatherAll(<<"servers", "hypervisors", "volumes", "networks">>, c))

\* round((used / total * 100), 2) if total > 0 else 0 on one hypervisor's own
\* figures: None > 0 and None / total are TypeErrors
HostPercent(used, total) ==
    IF total = None THEN Raise("TypeError")
    ELSE IF total[1] > 0
         THEN IF used = None THEN Raise("TypeError")
              ELSE Ok(Round2(used[1] * 100, total[1]))
         ELSE Ok(0)

HostUtilization(hypervisor) ==
    LET cpu == HostPercent(GetD(hypervisor, "vcpus_used", Some(0)),
                           GetD(hypervisor, "vcpus", Some(0)))
        memory == HostPercent(GetD(hypervisor, "memory_mb_used", Some(0)),
                              GetD(hypervisor, "memory_mb", Some(0)))
        disk == HostPercent(GetD(hypervisor, "local_gb_used", Some(0)),
                            GetD(hypervisor, "local_gb", Some(0)))
    IN IF cpu.raised \/ memory.raised \/ disk.raised THEN Raise("TypeError")
       ELSE Ok([hypervisor |-> Get(hypervisor, "hypervisor_hostname"),
                status |-> Get(hypervisor, "status"),
                running_vms |-> GetD(hypervisor, "running_vms", Some(0)),
                cpu |-> [total |-> GetD(hypervisor, "vcpus", Some(0)),
                         used |-> GetD(hypervisor, "vcpus_used", Some(0)),
                         utilization_percent |-> cpu.value],
                memory |-> [total_mb |-> GetD(hypervisor, "memory_mb", Some(0)),
                            used_mb |-> GetD(hypervisor, "memory_mb_used", Some(0)),
                            utilization_percent |-> memory.value],
                disk |-> [total_gb |-> GetD(hypervisor, "local_gb", Some(0)),
                          used_gb |-> GetD(hypervisor, "local_gb_used", Some(0)),
                          utilization_percent |-> disk.value]])

\* the utilization document after the hypervisors were listed
UtilizationOf(listed) ==
    LET hypervisors == listed.value
        utilization_data == [i \in DOMAIN hypervisors |-> HostUtilization(hypervisors[i])]
        total_vms == SumOf(hypervisors, "running_vms")
    IN IF listed.raised
       THEN [c |-> listed.c, raised |-> FALSE, locals |-> NoKeys,
             value |-> [error |-> listed.error]]
       ELSE IF (\E i \in DOMAIN hypervisors : utilization_data[i].raised) \/ total_vms.raised
       THEN [c |-> listed.c, raised |-> FALSE, locals |-> [hypervisors |-> hypervisors],
             value |-> [error |-> "TypeError"]]
       ELSE [c |-> listed.c, raised |-> FALSE, locals |-> [hypervisors |-> hypervisors],
             value |->
               [timestamp |-> "current",
                hypervisors |-> [i \in DOMAIN hypervisors |-> utilization_data[i].value],
                summary |->
                  [total_hypervisors |-> Len(hypervisors),
                   active_hypervisors |-> CountWhere(hypervisors, "status", Some("enabled")),
                   total_vms |-> total_vms.value]]]

get_resource_utilization(c) == UtilizationOf(list_hypervisors(c))

-----------------------------------------------------------------------------
(* OpenStackMCPServer: the service health check *)

\* one probe: the listing call's outcome as the service's entry
Probe(r, label, what) ==
    IF r.raised
    THEN [status |-> "unhealthy", last_check |-> "current",
          message |-> [text |-> label \o " service error", error |-> r.error]]
    ELSE [status |-> "healthy", last_check |-> "current",
          message |-> [text |-> "Successfully retrieved", count |-> Len(r.value),
                       what |-> what]]

\* OverallStatus with the threshold for "critical" off by one
OverallStatus_Mut(unhealthy, while_probing) ==
    IF unhealthy > 2 THEN "critical"
    ELSE IF unhealthy = 1 THEN "degraded"
    ELSE while_probing

\* the verdict after the probes: the status written while probing stands
\* unless the count of unhealthy entries replaces it
OverallStatus(unhealthy, while_probing) ==
    IF unhealthy >= 2 THEN "critical"
    ELSE IF unhealthy = 1 THEN "degraded"
    ELSE while_probing

\* a health document whose summary counts every entry as healthy
HealthDocument_Mut(nova, cinder, neutron) ==
    LET services == [nova |-> Probe(nova, "Nova", "servers"),
                     cinder |-> Probe(cinder, "Cinder", "volumes"),
                     neutron |-> Probe(neutron, "Neutron", "networks")]
        while_probing ==
            IF nova.raised \/ cinder.raised \/ neutron.raised THEN "degraded" ELSE "healthy"
        unhealthy_services == {svc \in DOMAIN services : services[svc].status = "unhealthy"}
    IN [c |-> neutron.c, raised |-> FALSE,
        value |-> [timestamp |-> "current",
                   services |-> services,
                   overall_status |-> OverallStatus(Cardinality(unhealthy_services),
                                                    while_probing),
                   summary |-> [healthy_services |-> Cardinality(DOMAIN services),
                                unhealthy_services |-> Cardinality(unhealthy_services),
                                total_services |-> Cardinality(DOMAIN services)]]]

\* the health document after the three probes
HealthDocument(nova, cinder, neutron) ==
    LET services == [nova |-> Probe(nova, "Nova", "servers"),
                     cinder |-> Probe(cinder, "Cinder", "volumes"),
                     neutron |-> Probe(neutron, "Neutron", "networks")]
        while_probing ==
            IF nova.raised \/ cinder.raised \/ neutron.raised THEN "degraded" ELSE "healthy"
        unhealthy_services == {svc \in DOMAIN services : services[svc].status = "unhealthy"}
        healthy_services == {svc \in DOMAIN services : services[svc].status = "healthy"}
    IN [c |-> neutron.c, raised |-> FALSE,
        value |-> [timestamp |-> "current",
                   services |-> services,
                   overall_status |-> OverallStatus(Cardinality(unhealthy_services),
                                                    while_probing),
                   summary |-> [healthy_services |-> Cardinality(healthy_services),
                                unhealthy_services |-> Cardinality(unhealthy_services),
                                total_services |-> Cardinality(DOMAIN services)]]]

\* the networking probe follows the storage probe, whatever its outcome
ProbeNeutron(nova, cinder) == HealthDocument(nova, cinder, list_networks(cinder.c))

\* the storage probe follows the compute probe, whatever its outcome
ProbeCinder(nova) == ProbeNeutron(nova, list_volumes(nova.c))

check_service_health(c) == ProbeCinder(list_servers(c))

-----------------------------------------------------------------------------
(* OpenStackMCPServer._execute_tool: one action per tool *)

ServerIds == {"s1", "s404", "detail", ""}
FlavorIds == {"f1", "f404", "detail", ""}
ImageIds == {"img1", "img404", "detail", ""}

\* arguments.get("<name>_id"): None when the call has no such argument
Arguments(ids) == {None} \cup {Some(id) : id \in ids}

\* a call that is let through without its id
Rejected_Mut(name) ==
    [c |-> [Client EXCEPT !.sent = <<AuthRequest>>], raised |-> FALSE, value |-> None]

\* if not <name>_id: raise ValueError("<name>_id is required")
Rejected(name) ==
    [c |-> Client, raised |-> TRUE, error |-> name \o " is required"]

\* the positions _check_service_health passes through: three try blocks one
\* after the other, each around one blocking call, with no await between them
ProbeSteps ==
    <<[probe |-> "nova", step |-> "started"], [probe |-> "nova", step |-> "completed"],
      [probe |-> "cinder", step |-> "started"], [probe |-> "cinder", step |-> "completed"],
      [probe |-> "neutron", step |-> "started"], [probe |-> "neutron", step |-> "completed"]>>

CheckServiceHealth ==
    Return("check_service_health", None, ProbeSteps, check_service_health(Client))

\* server = self.get_server_details(server_id): what the lookup handed to
\* analyze_server_resources
Looked(found) ==
    [raised |-> found.raised, value |-> IF found.raised THEN None ELSE found.value]

AnalyzeServerResources ==
    \E server_id \in Arguments(ServerIds) :
        IF ~TruthyStr(server_id)
        THEN Return("analyze_server_resources", server_id, NoKeys, Rejected("server_id"))
        ELSE Return("analyze_server_resources", server_id,
                    [server |-> Looked(get_server_details(Client, server_id[1]))],
                    analyze_server_resources(Client, server_id[1]))

GetServerDetails ==
    \E server_id \in Arguments(ServerIds) :
        IF ~TruthyStr(server_id)
        THEN Return("get_server_details", server_id, NoKeys, Rejected("server_id"))
        ELSE Return("get_server_details", server_id, NoKeys,
                    get_server_details(Client, server_id[1]))

GetFlavorDetails ==
    \E flavor_id \in Arguments(FlavorIds) :
        IF ~TruthyStr(flavor_id)
        THEN Return("get_flavor_details", flavor_id, NoKeys, Rejected("flavor_id"))
        ELSE Return("get_flavor_details", flavor_id, NoKeys,
                    get_flavor_details(Client, flavor_id[1]))

GetImageDetails ==
    \E image_id \in Arguments(ImageIds) :
        IF ~TruthyStr(image_id)
        THEN Return("get_image_details", image_id, NoKeys, Rejected("image_id"))
        ELSE Return("get_image_details", image_id, NoKeys,
                    get_image_details(Client, image_id[1]))

\* the nine listing tools
ListResources ==
    \E i \in DOMAIN InventoryKinds :
        Return("list_" \o InventoryKinds[i], None, NoKeys, ListOf(InventoryKinds[i], Client))

\* arguments.get("format", "detailed")
GenerateInventoryReport ==
    \E format \in {None, Some("detailed"), Some("summary"), Some("brief")} :
        LET report_format == IF format = None THEN "detailed" ELSE format[1]
            r == generate_inventory_report(Client, report_format)
        IN Return("generate_inventory_report", format, r.locals, r)

GetInfrastructureSummary ==
    LET r == get_infrastructure_summary(Client)
    IN Return("get_infrastructure_summary", None, r.locals, r)

GetResourceUtilization ==
    LET r == get_resource_utilization(Client)
    IN Return("get_resource_utilization", None, r.locals, r)

\* names a caller can send that _execute_tool compares with no tool
UnknownNames == {"no_such_tool", "list_server", "delete_server"}

\* else: raise ValueError(f"Unknown tool: {name}")
Unknown(name) ==
    [c |-> Client, raised |-> TRUE, error |-> "Unknown tool: " \o name]

\* the else branch of _execute_tool: the client is not touched
UnknownTool ==
    \E name \in UnknownNames : Return(name, None, NoKeys, Unknown(name))

\* handle_call_tool hands the serialised outcome to the MCP client
Reply ==
    /\ ~Idle
    /\ result' = [tool |-> "none"]
    /\ sent' = <<>>
    /\ UNCHANGED <<cloud, stdout_ok, token, project_id>>

Next ==
    \/ Reply
    \/ CheckServiceHealth
    \/ AnalyzeServerResources
    \/ GetServerDetails
    \/ GetFlavorDetails
    \/ GetImageDetails
    \/ ListResources
    \/ GenerateInventoryReport
    \/ GetInfrastructureSummary
    \/ GetResourceUtilization
    \/ UnknownTool

Spec == Init /\ [][Next]_vars

-----------------------------------------------------------------------------
(* What the claims speak of *)

HealthServed == result.tool = "check_service_health"
AnalysisServed == result.tool = "analyze_server_resources"
ReportServed == result.tool = "generate_inventory_report"
SummaryServed == result.tool = "get_infrastructure_summary"
UtilizationServed == result.tool = "get_resource_utilization"

\* the call obtained its collections (no listing call raised)
Gathered == result.locals # NoKeys
\* the call returned a report, not the error document
IsReport == ReportServed /\ "recommendations" \in DOMAIN result.value

\* the service answered the listing request of this call
Answered(svc) ==
    \E i \in DOMAIN sent : /\ sent[i].service = svc
                           /\ ~ServiceFails(svc, sent[i].endpoint, sent[i].with_project)

Unhealthy == {svc \in DOMAIN result.value.services :
                result.value.services[svc].status = "unhealthy"}

CapacityKeys == {"vcpus", "vcpus_used", "memory_mb", "memory_mb_used",
                 "local_gb", "local_gb_used"}

\* every hypervisor reports a number for every figure the tools read
Numeric(hs) == \A i \in DOMAIN hs : \A k \in CapacityKeys \cup {"running_vms"} : hs[i][k] # None
\* every volume reports its size
Sized(vs) == \A i \in DOMAIN vs : vs[i].size # None
\* every hypervisor reports 0 for the figure (so does the empty collection)
ZeroTotal(hs, key) == \A i \in DOMAIN hs : hs[i][key] = Some(0)

RECURSIVE SumPresentFrom(_, _, _)
SumPresentFrom(hs, key, i) ==
    IF i > Len(hs) THEN 0
    ELSE (IF hs[i][key] = None THEN 0 ELSE hs[i][key][1]) + SumPresentFrom(hs, key, i + 1)
\* the sum of the values of key that are present
SumPresent(hs, key) == SumPresentFrom(hs, key, 1)

\* the positions of the recommendations of a priority
Entries(priority) ==
    {i \in DOMAIN result.value.recommendations :
        result.value.recommendations[i].priority = priority}

\* the k-th smallest member of a set of positions
Kth(positions, k) ==
    CHOOSE i \in positions : Cardinality({j \in positions : j < i}) = k - 1

-----------------------------------------------------------------------------
(* C1: in check_service_health every service whose listing call fails gets  *)
(* an entry with status "unhealthy" carrying the failure message, every     *)
(* service whose call succeeds gets "healthy", and all three are probed.    *)
C1_FaultIsolation ==
    HealthServed =>
        /\ ~result.raised
        /\ DOMAIN result.value.services = Services
        /\ \A svc \in Services :
            LET entry == result.value.services[svc]
            IN /\ Answered(svc) => entry.status = "healthy"
               /\ ~Answered(svc) => /\ entry.status = "unhealthy"
                                    /\ "error" \in DOMAIN entry.message

(* C2: overall_status is decided by the number of unhealthy entries alone:  *)
(* 0 gives healthy, 1 gives degraded, 2 or 3 give critical.                 *)
C2_OverallByCount ==
    HealthServed =>
        result.value.overall_status =
            CASE Cardinality(Unhealthy) = 0 -> "healthy"
              [] Cardinality(Unhealthy) = 1 -> "degraded"
              [] OTHER -> "critical"

\* two probes failed and the verdict written while probing was replaced
C2_Witness ==
    /\ HealthServed
    /\ Cardinality(Unhealthy) = 2
    /\ result.value.overall_status = "critical"

(* C3: health_status follows the decision table, first match wins: ACTIVE   *)
(* with power_state 1 is healthy, else ERROR is error, else SHUTOFF or      *)
(* SUSPENDED is stopped, else transitioning; "unknown" is never returned.   *)
(* The record analysed is the server of the id, or the empty document when  *)
(* the answer held no server.                                               *)
C3_HealthDecisionTable ==
    (AnalysisServed /\ ~result.raised /\ result.value # None) =>
        LET known == {i \in DOMAIN cloud.servers :
                         Get(cloud.servers[i], "id") = result.arg}
            raw == IF known = {} THEN NoKeys
                   ELSE cloud.servers[CHOOSE i \in known : TRUE]
            status == Get(raw, "status")
            power_state == Get(raw, "OS-EXT-STS:power_state")
            health == result.value[1].health_status
        IN /\ health # "unknown"
           /\ (status = Some("ACTIVE") /\ power_state = Some(1)) => health = "healthy"
           /\ (status = Some("ACTIVE") /\ power_state # Some(1)) => health = "transitioning"
           /\ status = Some("ERROR") => health = "error"
           /\ status \in {Some("SHUTOFF"), Some("SUSPENDED")} => health = "stopped"
           /\ status \notin {Some("ACTIVE"), Some("ERROR"), Some("SHUTOFF"), Some("SUSPENDED")}
                => health = "transitioning"

\* an ACTIVE server whose power state is not 1 was analysed
C3_Witness ==
    /\ AnalysisServed /\ ~result.raised /\ result.value # None
    /\ result.value[1].server_info.status = Some("ACTIVE")
    /\ \E i \in DOMAIN cloud.servers :
          Get(cloud.servers[i], "OS-EXT-STS:power_state") = Some(0)
    /\ result.value[1].health_status = "transitioning"

(* C4: in generate_inventory_report and get_infrastructure_summary a        *)
(* failure while building one section does not remove the other sections,   *)
(* which were built, from the returned document.                            *)
C4_SectionsSurvive ==
    /\ (ReportServed /\ Gathered) =>
          /\ {"summary", "networking"} \subseteq DOMAIN result.value
          /\ Sized(result.locals.volumes) => "storage" \in DOMAIN result.value
    /\ (SummaryServed /\ Gathered) =>
          /\ "network" \in DOMAIN result.value
          /\ Sized(result.locals.volumes) => "storage" \in DOMAIN result.value

(* C5: when the aggregate total of a metric is 0 (no hypervisors, or every  *)
(* hypervisor reporting 0), the report, the infrastructure summary and the  *)
(* resource utilization give utilization_percent 0 for it, without a        *)
(* division fault.                                                          *)
C5_ZeroSafe ==
    /\ (ReportServed /\ Gathered /\ Numeric(result.locals.hypervisors)
            /\ Sized(result.locals.volumes)) =>
          LET hs == result.locals.hypervisors
              capacity == result.value.compute.hypervisors.capacity
              percent == result.value.resource_utilization.compute_utilization
          IN /\ ZeroTotal(hs, "vcpus") =>
                    /\ IsReport
                    /\ capacity.vcpus.utilization_percent = 0
                    /\ percent.cpu_percent = 0
             /\ ZeroTotal(hs, "memory_mb") =>
                    /\ IsReport
                    /\ capacity.memory.utilization_percent = 0
                    /\ percent.memory_percent = 0
             /\ ZeroTotal(hs, "local_gb") =>
                    /\ IsReport
                    /\ capacity.local_storage.utilization_percent = 0
                    /\ percent.disk_percent = 0
    /\ (SummaryServed /\ Gathered /\ Numeric(result.locals.hypervisors)
            /\ Sized(result.locals.volumes)) =>
          LET hs == result.locals.hypervisors
          IN /\ ZeroTotal(hs, "vcpus") =>
                    /\ "compute" \in DOMAIN result.value
                    /\ result.value.compute.hypervisors.vcpus.utilization_percent = 0
             /\ ZeroTotal(hs, "memory_mb") =>
                    /\ "compute" \in DOMAIN result.value
                    /\ result.value.compute.hypervisors.memory.utilization_percent = 0
    /\ (UtilizationServed /\ Gathered /\ Numeric(result.locals.hypervisors)) =>
          LET hs == result.locals.hypervisors
          IN /\ "hypervisors" \in DOMAIN result.value
             /\ \A i \in DOMAIN hs :
                   /\ hs[i].vcpus = Some(0) =>
                        result.value.hypervisors[i].cpu.utilization_percent = 0
                   /\ hs[i].memory_mb = Some(0) =>
                        result.value.hypervisors[i].memory.utilization_percent = 0
                   /\ hs[i].local_gb = Some(0) =>
                        result.value.hypervisors[i].disk.utilization_percent = 0

(* C6: capacity aggregation treats a missing attribute as 0: every total    *)
(* and used value of the report is the sum of the values that are present.  *)
C6_MissingCountsAsZero ==
    (ReportServed /\ Gathered /\ Sized(result.locals.volumes)
        /\ \A i \in DOMAIN result.locals.hypervisors :
              result.locals.hypervisors[i].vcpus # Some(0)) =>
        LET hs == result.locals.hypervisors
            capacity == result.value.compute.hypervisors.capacity
        IN /\ IsReport
           /\ capacity.vcpus.total = SumPresent(hs, "vcpus")
           /\ capacity.vcpus.used = SumPresent(hs, "vcpus_used")
           /\ capacity.memory.total_mb = SumPresent(hs, "memory_mb")
           /\ capacity.memory.used_mb = SumPresent(hs, "memory_mb_used")
           /\ capacity.local_storage.total_gb = SumPresent(hs, "local_gb")
           /\ capacity.local_storage.used_gb = SumPresent(hs, "local_gb_used")

(* C7: high_utilization_hypervisors lists exactly the hostnames of the      *)
(* hypervisors with vcpus_used / max(vcpus, 1) > 0.8, in list order, also   *)
(* when a hypervisor has vcpus equal to 0.                                  *)
C7_HighUtilizationHosts ==
    (ReportServed /\ Gathered /\ Numeric(result.locals.hypervisors)
        /\ Sized(result.locals.volumes)) =>
        LET hs == result.locals.hypervisors
            floor(i) == IF hs[i].vcpus[1] > 1 THEN hs[i].vcpus[1] ELSE 1
            high == {i \in DOMAIN hs : hs[i].vcpus_used[1] * 10 > 8 * floor(i)}
            listed == result.value.resource_utilization.high_utilization_hypervisors
        IN /\ IsReport
           /\ Len(listed) = Cardinality(high)
           /\ \A k \in DOMAIN listed : listed[k] = hs[Kth(high, k)].hypervisor_hostname

(* C8: for CPU and for Memory the recommendations hold exactly one          *)
(* priority "high" entry when aggregate used/total is above 80%, and none   *)
(* when it is 80% or less or total is 0; the message carries the            *)
(* utilization rounded to 2 decimals (100/85 gives 85.0).                   *)
C8_CapacityWarnings ==
    IsReport =>
        LET hs == result.locals.hypervisors
            Holds(resource, total, used) ==
                LET found == {i \in Entries("high") :
                                result.value.recommendations[i].resource = resource}
                    percent == result.value.recommendations[CHOOSE i \in found : TRUE]
                                    .message.percent
                IN IF total > 0 /\ used * 100 > 80 * total
                   THEN /\ Cardinality(found) = 1
                        /\ 2 * (percent * total - used * 10000) <= total
                        /\ 2 * (used * 10000 - percent * total) <= total
                        /\ (total = 100 /\ used = 85) => percent = 8500
                   ELSE found = {}
        IN /\ Holds("CPU", SumPresent(hs, "vcpus"), SumPresent(hs, "vcpus_used"))
           /\ Holds("Memory", SumPresent(hs, "memory_mb"), SumPresent(hs, "memory_mb_used"))

\* 100 vcpus of which 85 are used: one CPU entry, carrying 85.0
C8_Witness ==
    /\ IsReport
    /\ SumPresent(result.locals.hypervisors, "vcpus") = 100
    /\ SumPresent(result.locals.hypervisors, "vcpus_used") = 85
    /\ \E i \in DOMAIN result.value.recommendations :
          /\ result.value.recommendations[i].resource = "CPU"
          /\ result.value.recommendations[i].message.percent = 8500

(* C9: when a listed server has status ERROR the report holds one priority  *)
(* "critical" entry whose affected list names every ERROR server in server  *)
(* order, by its name, or by its id when it has no name.                    *)
C9_ErrorServersNamed ==
    IsReport =>
        LET servers == result.locals.servers
            errors == {i \in DOMAIN servers : servers[i].status = Some("ERROR")}
            found == Entries("critical")
            affected == result.value.recommendations[CHOOSE i \in found : TRUE]
                            .affected_servers
            label(i) == IF servers[i].name # None THEN servers[i].name ELSE servers[i].id
        IN errors # {} =>
              /\ Cardinality(found) = 1
              /\ Len(affected) = Cardinality(errors)
              /\ \A k \in DOMAIN affected : affected[k] = label(Kth(errors, k))

(* C10: a flavor is unused exactly when it is public and no server refers   *)
(* to its id; with at least one unused flavor the report holds one priority *)
(* "low" entry whose unused_flavors are the first min(5, n) unused names in *)
(* flavor order, never more than 5.                                         *)
C10_UnusedFlavors ==
    IsReport =>
        LET flavors == result.locals.flavors
            servers == result.locals.servers
            unused == {i \in DOMAIN flavors :
                          /\ flavors[i].is_public = Some(TRUE)
                          /\ \A j \in DOMAIN servers : servers[j].flavor # flavors[i].id}
            n == Cardinality(unused)
            found == Entries("low")
            names == result.value.recommendations[CHOOSE i \in found : TRUE].unused_flavors
        IN IF n > 0
           THEN /\ Cardinality(found) = 1
                /\ Len(names) = (IF n < 5 THEN n ELSE 5)
                /\ \A k \in DOMAIN names : names[k] = flavors[Kth(unused, k)].name
           ELSE found = {}

\* six unused public flavors, of which the entry names five
C10_Witness ==
    /\ IsReport
    /\ Cardinality({i \in DOMAIN result.locals.flavors :
                      /\ result.locals.flavors[i].is_public = Some(TRUE)
                      /\ \A j \in DOMAIN result.locals.servers :
                            result.locals.servers[j].flavor # result.locals.flavors[i].id}) = 6
    /\ \E i \in DOMAIN result.value.recommendations :
          /\ result.value.recommendations[i].priority = "low"
          /\ Len(result.value.recommendations[i].unused_flavors) = 5

\* the place of a recommendation's rule in the order the rules are evaluated
RuleRank(entry) ==
    CASE entry.resource = "CPU" -> 1
      [] entry.resource = "Memory" -> 2
      [] entry.resource = "Servers" -> 3
      [] entry.resource = "Hypervisors" -> 4
      [] entry.resource = "Flavors" -> 5

\* the positions of the recommendations about a resource
EntriesAbout(resource) ==
    {i \in DOMAIN result.value.recommendations :
        result.value.recommendations[i].resource = resource}

(* C11: the five recommendation rules fire independently, each on its own   *)
(* condition alone, each contributes at most one entry, and the entries     *)
(* appear in the order CPU, Memory, error servers, disabled hypervisors     *)
(* (priority medium), unused flavors, whatever their priorities.            *)
C11_RuleOrder ==
    IsReport =>
        LET recs == result.value.recommendations
            hs == result.locals.hypervisors
            servers == result.locals.servers
            flavors == result.locals.flavors
            Over80(total, used) == total > 0 /\ used * 100 > 80 * total
        IN /\ \A i, j \in DOMAIN recs : i < j => RuleRank(recs[i]) < RuleRank(recs[j])
           /\ EntriesAbout("CPU") # {}
                <=> Over80(SumPresent(hs, "vcpus"), SumPresent(hs, "vcpus_used"))
           /\ EntriesAbout("Memory") # {}
                <=> Over80(SumPresent(hs, "memory_mb"), SumPresent(hs, "memory_mb_used"))
           /\ EntriesAbout("Servers") # {}
                <=> \E i \in DOMAIN servers : servers[i].status = Some("ERROR")
           /\ EntriesAbout("Hypervisors") # {}
                <=> \E i \in DOMAIN hs : hs[i].status # Some("enabled")
           /\ \A i \in EntriesAbout("Hypervisors") : recs[i].priority = "medium"
           /\ EntriesAbout("Flavors") # {}
                <=> \E i \in DOMAIN flavors :
                        /\ flavors[i].is_public = Some(TRUE)
                        /\ \A j \in DOMAIN servers : servers[j].flavor # flavors[i].id

\* all five rules fired: high, high, critical, medium, low, in rule order
C11_Witness ==
    /\ IsReport
    /\ Len(result.value.recommendations) = 5
    /\ [i \in 1..5 |-> result.value.recommendations[i].priority]
          = <<"high", "high", "critical", "medium", "low">>

\* the keys under which a section carries its raw listings
DetailKeys == [compute |-> {"server_details", "hypervisor_details", "flavor_details"},
               storage |-> {"volume_details", "volume_type_details"},
               networking |-> {"network_details", "subnet_details", "router_details"}]

AllDetailKeys == DetailKeys.compute \cup DetailKeys.storage \cup DetailKeys.networking

\* the verbosity the call ran with: arguments.get("format", "detailed")
Verbosity == IF result.arg = None THEN "detailed" ELSE result.arg[1]

\* a report without its raw listings and without the echo of its format
Counters(report) ==
    [k \in DOMAIN report \ {"report_metadata"} |->
        IF k \in DOMAIN DetailKeys
        THEN [f \in DOMAIN report[k] \ AllDetailKeys |-> report[k][f]]
        ELSE report[k]]

(* C12: with format "detailed" the report carries server_details,           *)
(* hypervisor_details, flavor_details (compute), volume_details,            *)
(* volume_type_details (storage) and network_details, subnet_details,       *)
(* router_details (networking); with "summary" or any other value no key    *)
(* ends in _details; the aggregate counters are the same in both modes.     *)
C12_Verbosity ==
    IsReport =>
        LET report == result.value
            d == result.locals
        IN /\ Verbosity = "detailed" =>
                /\ \A k \in DOMAIN DetailKeys : DetailKeys[k] \subseteq DOMAIN report[k]
                /\ report.compute.server_details = d.servers
                /\ report.compute.hypervisor_details = d.hypervisors
                /\ report.compute.flavor_details = d.flavors
                /\ report.storage.volume_details = d.volumes
                /\ report.storage.volume_type_details = d.volume_types
                /\ report.networking.network_details = d.networks
                /\ report.networking.subnet_details = d.subnets
                /\ report.networking.router_details = d.routers
           /\ Verbosity # "detailed" =>
                /\ DOMAIN report \cap AllDetailKeys = {}
                /\ \A k \in DOMAIN DetailKeys :
                      /\ DOMAIN report[k] \cap AllDetailKeys = {}
                      /\ \A f \in DOMAIN report[k] : DOMAIN report[k][f] \cap AllDetailKeys = {}
           /\ Counters(BuildReport(d, IF Verbosity = "detailed" THEN "summary"
                                       ELSE "detailed").value) = Counters(report)

\* a report asked for with a format that is neither "detailed" nor "summary"
C12_Witness ==
    /\ IsReport
    /\ result.arg = Some("brief")
    /\ result.locals.volumes # <<>>
    /\ DOMAIN result.value.storage = {"volumes", "volume_types"}

\* the records of a collection, as a set
RecordsOf(collection) == {collection[i] : i \in DOMAIN collection}

(* C13: when the verbosity is not "detailed", no part of the compute,       *)
(* storage or networking section holds a per-resource record (a full        *)
(* server, hypervisor, flavor, volume, network, subnet or router record),   *)
(* also when servers are in ERROR state.                                    *)
C13_CountersOnly ==
    (IsReport /\ Verbosity # "detailed") =>
        LET report == result.value
        IN /\ \A k \in DOMAIN DetailKeys : DOMAIN report[k] \cap AllDetailKeys = {}
           /\ \A i \in DOMAIN report.compute.servers.error_servers :
                 report.compute.servers.error_servers[i] \notin RecordsOf(result.locals.servers)

\* the sections of the report over the nine collections of BaseCloud
BaseReport(report_format) ==
    BuildReport([kind \in {InventoryKinds[i] : i \in DOMAIN InventoryKinds} |->
                    [i \in DOMAIN BaseCloud[kind] |-> Normalised(kind, BaseCloud[kind][i])]],
                report_format).value

\* the service behind each listing operation
BackingService ==
    [servers |-> "nova", hypervisors |-> "nova", flavors |-> "nova", images |-> "nova",
     volumes |-> "cinder", volume_types |-> "cinder",
     networks |-> "neutron", subnets |-> "neutron", routers |-> "neutron"]

\* the deployment is BaseCloud but for collections that are empty and for
\* services that fail
EmptiedOnly ==
    \A kind \in DOMAIN BaseCloud :
        \/ cloud[kind] = BaseCloud[kind]
        \/ kind \in DOMAIN result.locals /\ cloud[kind] = <<>>
        \/ kind \in {"down", "auth", "strict", "fault"}

\* the report's count of a collection
Counted(kind) == result.value.summary.total_resources[kind]

SectionKinds ==
    [compute |-> {"servers", "hypervisors", "flavors", "images"},
     storage |-> {"volumes", "volume_types"},
     networking |-> {"networks", "subnets", "routers"}]

(* C14: whichever of the nine collections are empty, because the service    *)
(* holds none or because the fetch failed, generate_inventory_report        *)
(* returns the report with its seven keys and no error key; a collection    *)
(* that is empty or whose fetch failed counts 0 and every other one counts  *)
(* the resources the service holds; and a section none of whose             *)
(* collections is empty or failed is the one of the full deployment, also   *)
(* when the servers' flavor is not among the listed flavors.                *)
C14_EmptyCollections ==
    (ReportServed /\ EmptiedOnly) =>
        /\ ~result.raised
        /\ DOMAIN result.value = {"report_metadata", "summary", "compute", "storage",
                                  "networking", "resource_utilization", "recommendations"}
        /\ \A kind \in DOMAIN result.value.summary.total_resources :
              /\ Counted(kind) = Len(result.locals[kind])
              /\ Counted(kind) \in {0, Len(cloud[kind])}
              /\ (cloud[kind] = <<>> \/ ~Answered(BackingService[kind])) => Counted(kind) = 0
              /\ (cloud.down = {} /\ cloud.auth = "ok" /\ ~cloud.strict)
                     => Counted(kind) = Len(cloud[kind])
        /\ \A section \in DOMAIN SectionKinds :
              (\A kind \in SectionKinds[section] : Len(result.locals[kind]) = Len(BaseCloud[kind]))
                  => result.value[section] = BaseReport(Verbosity)[section]

ListingServed(kind) == result.tool = "list_" \o kind

(* C15: each of the nine listing operations returns the empty collection    *)
(* and raises nothing to its caller when its service gave no answer,        *)
(* because authentication failed, the connection failed, the status was an  *)
(* error or the body could not be decoded.                                  *)
C15_ListingsSwallow ==
    \A kind \in DOMAIN BackingService :
        ListingServed(kind) =>
            /\ ~result.raised
            /\ ~Answered(BackingService[kind]) => result.value = <<>>

\* the URL prefix of each detail lookup and the key under which the service
\* returns the resource
DetailLookups ==
    [get_server_details |-> [prefix |-> "/servers/", key |-> "server"],
     get_flavor_details |-> [prefix |-> "/flavors/", key |-> "flavor"],
     get_image_details |-> [prefix |-> "/images/", key |-> "image"]]

\* the call was given an id
LookedUp(tool) == result.tool = tool /\ TruthyStr(result.arg)

\* the lookup of the id was answered with the resource's document
Resolved(tool) ==
    \E i \in DOMAIN sent :
        /\ sent[i].service = "nova"
        /\ sent[i].endpoint = DetailLookups[tool].prefix \o result.arg[1]
        /\ ~ServiceFails("nova", sent[i].endpoint, sent[i].with_project)
        /\ DetailLookups[tool].key \in DOMAIN Response(sent[i].endpoint)[1]

(* C16: get_server_details, get_flavor_details and get_image_details raise  *)
(* nothing, and return null, never a record, when the id does not resolve   *)
(* (the service knows no such resource, or did not answer); and             *)
(* analyze_server_resources returns null whenever its server lookup does.   *)
C16_NotFoundIsNull ==
    /\ \A tool \in DOMAIN DetailLookups :
          LookedUp(tool) =>
              /\ ~result.raised
              /\ ~Resolved(tool) => result.value = None
    /\ (LookedUp("analyze_server_resources")
            /\ ~result.locals.server.raised /\ result.locals.server.value = None)
          => (~result.raised /\ result.value = None)

\* the required argument of each tool that takes an id
RequiredId ==
    [get_server_details |-> "server_id", get_flavor_details |-> "flavor_id",
     get_image_details |-> "image_id", analyze_server_resources |-> "server_id"]

(* C17: a call of get_server_details, get_flavor_details, get_image_details *)
(* or analyze_server_resources whose id argument is missing or empty is     *)
(* rejected with an error that names the argument, and the client sends     *)
(* nothing for it: no authentication and no API request.                    *)
C17_MissingIdRejected ==
    \A tool \in DOMAIN RequiredId :
        (result.tool = tool /\ ~TruthyStr(result.arg)) =>
            /\ result.raised
            /\ result.error = RequiredId[tool] \o " is required"
            /\ sent = <<>>

\* get_flavor_details without a flavor_id on a client that never authenticated
C17_Witness ==
    /\ result.tool = "get_flavor_details" /\ result.arg = None
    /\ result.raised /\ result.error = "flavor_id is required"
    /\ sent = <<>> /\ token = None

\* the raw records of a collection that have no status
Statusless(raw) == {i \in DOMAIN raw : "status" \notin DOMAIN raw[i]}

\* the breakdown counts the statusless records of the collection as "unknown"
CountsUnknown(breakdown, raw) ==
    Statusless(raw) # {} =>
        /\ Some("unknown") \in DOMAIN breakdown
        /\ breakdown[Some("unknown")] = Cardinality(Statusless(raw))

(* C18: a resource whose raw record has no status is counted under          *)
(* "unknown" in every status breakdown built from the listings:             *)
(* server_status_breakdown, hypervisor_status_breakdown and by_status in    *)
(* the report, by_status in the infrastructure summary.                     *)
C18_UnknownBucket ==
    /\ IsReport =>
          /\ CountsUnknown(result.value.summary.server_status_breakdown, cloud.servers)
          /\ CountsUnknown(result.value.summary.hypervisor_status_breakdown, cloud.hypervisors)
          /\ CountsUnknown(result.value.compute.servers.by_status, cloud.servers)
          /\ CountsUnknown(result.value.storage.volumes.by_status, cloud.volumes)
    /\ (SummaryServed /\ "compute" \in DOMAIN result.value) =>
          CountsUnknown(result.value.compute.servers.by_status, cloud.servers)

RECURSIVE TotalOf(_, _)
\* the sum of the counts a breakdown holds for the given statuses
TotalOf(breakdown, statuses) ==
    IF statuses = {} THEN 0
    ELSE LET status == CHOOSE st \in statuses : TRUE
         IN breakdown[status] + TotalOf(breakdown, statuses \ {status})

\* the breakdown tabulates the status of the records
Tabulates(breakdown, records) ==
    /\ \A i \in DOMAIN records : records[i].status \in DOMAIN breakdown
    /\ \A status \in DOMAIN breakdown :
          /\ breakdown[status] > 0
          /\ breakdown[status] = Cardinality({i \in DOMAIN records : records[i].status = status})
    /\ TotalOf(breakdown, DOMAIN breakdown) = Len(records)

(* C19: every status breakdown (of servers, hypervisors, volumes and        *)
(* networks in the report, of servers in the infrastructure summary) maps   *)
(* each status to the number of resources that have it, holds no count of   *)
(* 0, and its counts sum to the size of the collection.                     *)
C19_Breakdown ==
    /\ IsReport =>
          /\ Tabulates(result.value.summary.server_status_breakdown, result.locals.servers)
          /\ Tabulates(result.value.summary.hypervisor_status_breakdown,
                       result.locals.hypervisors)
          /\ Tabulates(result.value.compute.servers.by_status, result.locals.servers)
          /\ Tabulates(result.value.storage.volumes.by_status, result.locals.volumes)
          /\ Tabulates(result.value.networking.networks.by_status, result.locals.networks)
    /\ (SummaryServed /\ "compute" \in DOMAIN result.value) =>
          Tabulates(result.value.compute.servers.by_status, result.locals.servers)

\* servers ACTIVE, ACTIVE, ERROR, SHUTOFF, ACTIVE give ACTIVE:3, ERROR:1, SHUTOFF:1
C19_Witness ==
    /\ IsReport
    /\ [i \in DOMAIN result.locals.servers |-> result.locals.servers[i].status]
          = <<Some("ACTIVE"), Some("ACTIVE"), Some("ERROR"), Some("SHUTOFF"), Some("ACTIVE")>>
    /\ result.value.summary.server_status_breakdown
          = (Some("ACTIVE") :> 3) @@ (Some("ERROR") :> 1) @@ (Some("SHUTOFF") :> 1)

\* the services whose entry in the health document has the given status
EntriesWith(status) ==
    {svc \in DOMAIN result.value.services : result.value.services[svc].status = status}

(* C20: in every result of check_service_health that carries a summary,     *)
(* unhealthy_services is the number of entries with status "unhealthy",     *)
(* healthy_services the number with status "healthy", and                   *)
(* healthy_services + unhealthy_services = total_services = 3.              *)
C20_SummaryCounts ==
    (HealthServed /\ "summary" \in DOMAIN result.value) =>
        LET summary == result.value.summary
        IN /\ summary.unhealthy_services = Cardinality(EntriesWith("unhealthy"))
           /\ summary.healthy_services = Cardinality(EntriesWith("healthy"))
           /\ summary.healthy_services + summary.unhealthy_services = summary.total_services
           /\ summary.total_services = 3

\* one probe failed: the summary counts 2 healthy and 1 unhealthy service
C20_Witness ==
    /\ HealthServed /\ "summary" \in DOMAIN result.value
    /\ Cardinality(EntriesWith("unhealthy")) = 1
    /\ result.value.summary.unhealthy_services = 1
    /\ result.value.summary.healthy_services = 2

\* the capacity metrics of the document: <<total, used, available, percent>>
CapacityMetrics ==
    IF IsReport
    THEN LET capacity == result.value.compute.hypervisors.capacity
         IN {<<capacity.vcpus.total, capacity.vcpus.used, capacity.vcpus.available,
               capacity.vcpus.utilization_percent>>,
             <<capacity.memory.total_mb, capacity.memory.used_mb,
               capacity.memory.available_mb, capacity.memory.utilization_percent>>,
             <<capacity.local_storage.total_gb, capacity.local_storage.used_gb,
               capacity.local_storage.available_gb,
               capacity.local_storage.utilization_percent>>}
    ELSE IF SummaryServed /\ "compute" \in DOMAIN result.value
    THEN LET hypervisors == result.value.compute.hypervisors
         IN {<<hypervisors.vcpus.total, hypervisors.vcpus.used, hypervisors.vcpus.available,
               hypervisors.vcpus.utilization_percent>>,
             <<hypervisors.memory.total_mb, hypervisors.memory.used_mb,
               hypervisors.memory.available_mb, hypervisors.memory.utilization_percent>>}
    ELSE {}

(* C21 as stated: in every capacity metric of the report and of the         *)
(* infrastructure summary, available = total - used, and total, used,       *)
(* available and utilization_percent are all non-negative, also for         *)
(* over-committed hypervisors.                                              *)
C21_AllNonNegative ==
    \A m \in CapacityMetrics :
        /\ m[3] = m[1] - m[2]
        /\ m[1] >= 0 /\ m[2] >= 0 /\ m[3] >= 0 /\ m[4] >= 0

(* C21 amended: in every capacity metric of the report and of the           *)
(* infrastructure summary, available = total - used, and total, used and    *)
(* utilization_percent are non-negative; available is negative exactly      *)
(* when used exceeds total, and then utilization_percent is above 100,      *)
(* not clamped.                                                             *)
C21_CapacityMetric ==
    \A m \in CapacityMetrics :
        /\ m[3] = m[1] - m[2]
        /\ m[1] >= 0 /\ m[2] >= 0 /\ m[4] >= 0
        /\ m[3] < 0 <=> m[2] > m[1]
        /\ (m[2] > m[1] /\ m[1] > 0) => m[4] > 10000
        /\ m[4] = IF m[1] > 0 THEN Round2(m[2] * 100, m[1]) ELSE 0

\* 60 of 50 vcpus used: 10 short, 120 percent
C21_Witness ==
    /\ IsReport
    /\ result.value.compute.hypervisors.capacity.vcpus.total = 50
    /\ result.value.compute.hypervisors.capacity.vcpus.used = 60
    /\ result.value.compute.hypervisors.capacity.vcpus.available = -10
    /\ result.value.compute.hypervisors.capacity.vcpus.utilization_percent = 12000

(* C22: generate_inventory_report lets no fault escape to its caller: when  *)
(* a listing call or the building of a section faults, it returns a         *)
(* document of exactly an "error" message and a "timestamp", the timestamp  *)
(* read from the clock in the handler, also when the fault came before the  *)
(* report's own timestamp was taken.                                        *)
C22_ErrorDocument ==
    ReportServed =>
        /\ ~result.raised
        /\ \/ IsReport
           \/ /\ DOMAIN result.value = {"error", "timestamp"}
              /\ result.value.error # ""
              /\ result.value.timestamp = "now"

\* a listing call raised before the report's timestamp was taken: the error
\* document carries its own
C22_Witness ==
    /\ ReportServed /\ ~stdout_ok /\ ~Gathered
    /\ ~result.raised
    /\ result.value.error = "I/O operation on closed file"
    /\ result.value.timestamp = "now"

\* the outcome of a call is the one just served
SameOutcome(again) ==
    /\ again.raised = result.raised
    /\ ~again.raised => again.value = result.value

(* C23: a listing operation called again on the same client, the service's  *)
(* collection unchanged, returns the same normalised records as the call    *)
(* just served, also when that call was the first API call of a fresh       *)
(* client, the one that authenticates.                                      *)
C23_ListingIdempotent ==
    \A kind \in DOMAIN BackingService :
        ListingServed(kind) => SameOutcome(ListOf(kind, Client))

\* a probe was started while an earlier-started probe had not completed
Overlapping(steps) ==
    \E i, j, k \in DOMAIN steps :
        /\ i < j /\ j < k
        /\ steps[i].step = "started" /\ steps[j].step = "started"
        /\ steps[k].step = "completed"
        /\ steps[k].probe = steps[i].probe /\ steps[j].probe # steps[i].probe

(* C24: the three probes of check_service_health run concurrently: a probe  *)
(* is started before an earlier-started probe has completed.                *)
C24_ProbesOverlap ==
    HealthServed => Overlapping(result.locals)

\* what the code does instead: no health check has two probes in flight
ProbesSequential ==
    HealthServed => ~Overlapping(result.locals)

(* C25: no tool call mutates the infrastructure: every request sent to the  *)
(* compute, storage and networking services is a GET without a body, and    *)
(* the only other request the client sends is the authentication POST to    *)
(* the identity service.                                                    *)
C25_ReadOnly ==
    \A i \in DOMAIN sent :
        /\ sent[i].service \in Services => (sent[i].method = "GET" /\ ~sent[i].body)
        /\ sent[i].service \notin Services => sent[i] = AuthRequest
        /\ sent[i].method # "GET" => sent[i] = AuthRequest

\* a report on a fresh client: one authentication, then reads of all three services
C25_Witness ==
    /\ ReportServed /\ IsReport
    /\ sent[1] = AuthRequest
    /\ \A svc \in Services :
          \E i \in DOMAIN sent : sent[i].service = svc /\ sent[i].method = "GET"
    /\ Len(sent) = 10

(* C26: a listing operation whose service answered returns one normalised  *)
(* record per raw record, in raw order and with the key set of its kind,    *)
(* whatever fields the raw records lack or hold as null; no sparse record   *)
(* makes it fail or drops another record.                                   *)
C26_OnePerRawRecord ==
    \A kind \in DOMAIN BackingService :
        (ListingServed(kind) /\ stdout_ok /\ Answered(BackingService[kind])) =>
            /\ ~result.raised
            /\ Len(result.value) = Len(cloud[kind])
            /\ \A i \in DOMAIN result.value :
                  /\ result.value[i].id = Get(cloud[kind][i], "id")
                  /\ DOMAIN result.value[i] = DOMAIN Normalised(kind, NoKeys)

(* C27: every request the client sends to the compute or the storage       *)
(* service goes to a URL that holds the project id, on the first API call   *)
(* of a fresh client as on every later one.                                 *)
C27_ProjectInUrl ==
    \A i \in DOMAIN sent :
        sent[i].service \in {"nova", "cinder"} => sent[i].with_project

\* the call sent an authentication request
Authenticates(log) == \E i \in DOMAIN log : log[i] = AuthRequest

\* one step of a client with fetch-or-reuse semantics
FetchOrReuse ==
    /\ token # None => /\ token' = token /\ project_id' = project_id
                       /\ ~Authenticates(sent')
    /\ (cloud.auth # "ok" /\ Authenticates(sent')) => token' = None
    /\ token' # None <=> project_id' # None

(* C28: once an authentication has succeeded no further authentication     *)
(* request is sent and the token and the project id never change; a failed  *)
(* authentication leaves the token unset; and the token is set only         *)
(* together with the project id.                                            *)
C28_TokenFetchOrReuse == [][FetchOrReuse]_vars

=============================================================================
